---- MODULE Spec2Model ----
(***************************************************************************)
(* Model of the persistent world-state engine of pathfinder:               *)
(* GameDatabase (session, queries, play mutations, reset) and GameEditor   *)
(* (authoring operations) over one SQLite store.                           *)
(*                                                                         *)
(* The store is the record db, one field per table of kSchemaSQL.  Every   *)
(* operation is an operator Op(d, fk, args) that returns the store after   *)
(* the call and the status_t the call returns; fk is the connection's      *)
(* foreign_keys pragma, which decides whether the FOREIGN KEY clauses of   *)
(* the schema are enforced.                                                *)
(***************************************************************************)
EXTENDS Integers, FiniteSets, Sequences, TLC

VARIABLES db, fDatabase, fDatabasePath, foreign_keys, fileExists, last,
          committed, fCurrentRoom, sinceReset, layout

vars == <<db, fDatabase, fDatabasePath, foreign_keys, fileExists, last,
          committed, fCurrentRoom, sinceReset, layout>>

-----------------------------------------------------------------------------
(* Bounds of the model *)

MaxRoomId == 3

MaxItemId == 3

MaxActionId == 1

MaxMoves == 1

MaxLayoutRuns == 1

-----------------------------------------------------------------------------
(* Values *)

NULL == -1

B_OK == "B_OK"

B_ERROR == "B_ERROR"

B_NO_INIT == "B_NO_INIT"

B_BAD_VALUE == "B_BAD_VALUE"

B_ENTRY_NOT_FOUND == "B_ENTRY_NOT_FOUND"

Directions == {"north", "south", "east", "west"}

StartingRoomId == 1

DefaultScore == 0

DefaultHealth == 100

Restrict(f, S) == [x \in S |-> f[x]]

Result(d, s) == [db |-> d, status |-> s]

-----------------------------------------------------------------------------
(* Schema and starter content *)

NoExits == [dd \in Directions |-> NULL]

EmptyDb ==
    [rooms |-> {}, exits |-> <<>>, graph |-> <<>>,
     items |-> {}, is_visible |-> <<>>,
     item_locations |-> <<>>, item_locations_initial |-> <<>>,
     item_combinations |-> {}, item_actions |-> <<>>,
     exit_conditions |-> <<>>,
     completed_actions |-> {}, removed_items |-> {}, revealed_items |-> {},
     unlocked_exits |-> {},
     game_state |-> <<>>,
     seq_rooms |-> 0, seq_items |-> 0, seq_actions |-> 0]

StarterContentNoSnapshot ==
    [EmptyDb EXCEPT
       !.rooms = {1, 2},
       !.exits = (1 :> [NoExits EXCEPT !["south"] = 2]) @@
                 (2 :> [NoExits EXCEPT !["north"] = 1]),
       !.graph = (1 :> <<0, 0>>) @@ (2 :> <<0, 100>>),
       !.items = {1, 2},
       !.is_visible = (1 :> TRUE) @@ (2 :> TRUE),
       !.item_locations = (1 :> 2) @@ (2 :> 2),
       !.game_state = [current_room_id |-> 1, score |-> DefaultScore,
                       health |-> DefaultHealth, moves_count |-> 0],
       !.seq_rooms = 2,
       !.seq_items = 2]

StarterContent ==
    [EmptyDb EXCEPT
       !.rooms = {1, 2},
       !.exits = (1 :> [NoExits EXCEPT !["south"] = 2]) @@
                 (2 :> [NoExits EXCEPT !["north"] = 1]),
       !.graph = (1 :> <<0, 0>>) @@ (2 :> <<0, 100>>),
       !.items = {1, 2},
       !.is_visible = (1 :> TRUE) @@ (2 :> TRUE),
       !.item_locations = (1 :> 2) @@ (2 :> 2),
       !.item_locations_initial = (1 :> 2) @@ (2 :> 2),
       !.game_state = [current_room_id |-> 1, score |-> DefaultScore,
                       health |-> DefaultHealth, moves_count |-> 0],
       !.seq_rooms = 2,
       !.seq_items = 2]

-----------------------------------------------------------------------------
(* Foreign keys of kSchemaSQL: the cascades a DELETE on rooms or items     *)
(* triggers when the connection enforces foreign keys.                     *)

CascadeActions(d, kept) ==
    [d EXCEPT !.item_actions = Restrict(@, kept),
              !.completed_actions = @ \cap kept]

SetNullExits(ex, r) ==
    [x \in DOMAIN ex |->
       [dd \in Directions |-> IF ex[x][dd] = r THEN NULL ELSE ex[x][dd]]]

CascadeRoomDelete(d, r) ==
    LET d1 == [d EXCEPT
                 !.exits = SetNullExits(@, r),
                 !.item_locations =
                     Restrict(@, {i \in DOMAIN @ : @[i] # r}),
                 !.item_locations_initial =
                     Restrict(@, {i \in DOMAIN @ : @[i] # r}),
                 !.exit_conditions =
                     Restrict(@, {k \in DOMAIN @ : k[1] # r}),
                 !.unlocked_exits = {k \in @ : k[1] # r}]
    IN CascadeActions(d1, {a \in DOMAIN d.item_actions :
                               d.item_actions[a].room_id # r})

CascadeItemDelete(d, i) ==
    LET d1 == [d EXCEPT
                 !.item_locations = Restrict(@, DOMAIN @ \ {i}),
                 !.item_locations_initial = Restrict(@, DOMAIN @ \ {i}),
                 !.item_combinations =
                     {c \in @ : i \notin {c[1], c[2], c[3]}},
                 !.exit_conditions =
                     [k \in DOMAIN @ |-> IF @[k] = i THEN NULL ELSE @[k]],
                 !.removed_items = @ \ {i},
                 !.revealed_items = @ \ {i}]
    IN CascadeActions(d1, {a \in DOMAIN d.item_actions :
                               /\ d.item_actions[a].item_id # i
                               /\ d.item_actions[a].target_item_id # i})

RefOk(fk, v, S) == (~fk) \/ v = NULL \/ v \in S

-----------------------------------------------------------------------------
(* GameDatabase: play mutations.  Each is one statement; a statement that  *)
(* violates an enforced constraint changes nothing and yields B_ERROR.     *)

UpdateGameState(d, fk, room, score, health, moves) ==
    IF RefOk(fk, room, d.rooms)
    THEN Result([d EXCEPT !.game_state =
                    [current_room_id |-> room, score |-> score,
                     health |-> health, moves_count |-> moves]], B_OK)
    ELSE Result(d, B_ERROR)

MoveToRoomKeepsCount(d, fk, newRoomId) ==
    IF RefOk(fk, newRoomId, d.rooms)
    THEN Result([d EXCEPT !.game_state.current_room_id = newRoomId], B_OK)
    ELSE Result(d, B_ERROR)

MoveToRoom(d, fk, newRoomId) ==
    IF RefOk(fk, newRoomId, d.rooms)
    THEN Result([d EXCEPT !.game_state.current_room_id = newRoomId,
                          !.game_state.moves_count = @ + 1], B_OK)
    ELSE Result(d, B_ERROR)

MoveItemToInventoryKeepsRoom(d, itemId) == Result(d, B_OK)

MoveItemToInventory(d, itemId) ==
    IF itemId \in DOMAIN d.item_locations
    THEN Result([d EXCEPT !.item_locations[itemId] = NULL], B_OK)
    ELSE Result(d, B_OK)

MoveItemToRoomAndInitial(d, fk, itemId, roomId) ==
    IF itemId \notin DOMAIN d.item_locations
    THEN Result(d, B_OK)
    ELSE IF RefOk(fk, roomId, d.rooms)
         THEN Result([d EXCEPT !.item_locations[itemId] = roomId,
                               !.item_locations_initial =
                                  (itemId :> roomId) @@ @], B_OK)
         ELSE Result(d, B_ERROR)

MoveItemToRoom(d, fk, itemId, roomId) ==
    IF itemId \notin DOMAIN d.item_locations
    THEN Result(d, B_OK)
    ELSE IF RefOk(fk, roomId, d.rooms)
         THEN Result([d EXCEPT !.item_locations[itemId] = roomId], B_OK)
         ELSE Result(d, B_ERROR)

(* INSERT OR IGNORE: the status of an insert whose key is already there *)
OnConflictAbort == B_ERROR

OnConflictIgnore == B_OK

MarkActionCompleted(d, fk, actionId) ==
    IF actionId \in d.completed_actions
    THEN Result(d, OnConflictIgnore)
    ELSE IF RefOk(fk, actionId, DOMAIN d.item_actions)
         THEN Result([d EXCEPT !.completed_actions = @ \cup {actionId}], B_OK)
         ELSE Result(d, B_ERROR)

IsActionCompletedNever(d, actionId) == FALSE

IsActionCompleted(d, actionId) == actionId \in d.completed_actions

SetItemVisibilityClearsFlag(d, fk, itemId, visible) ==
    IF visible
    THEN IF itemId \in d.revealed_items
         THEN Result(d, OnConflictIgnore)
         ELSE IF RefOk(fk, itemId, d.items)
              THEN Result([d EXCEPT !.revealed_items = @ \cup {itemId}], B_OK)
              ELSE Result(d, B_ERROR)
    ELSE Result([d EXCEPT !.revealed_items = @ \ {itemId},
                          !.is_visible =
                             [i \in DOMAIN @ |-> @[i] /\ i # itemId]], B_OK)

SetItemVisibility(d, fk, itemId, visible) ==
    IF visible
    THEN IF itemId \in d.revealed_items
         THEN Result(d, OnConflictIgnore)
         ELSE IF RefOk(fk, itemId, d.items)
              THEN Result([d EXCEPT !.revealed_items = @ \cup {itemId}], B_OK)
              ELSE Result(d, B_ERROR)
    ELSE Result([d EXCEPT !.revealed_items = @ \ {itemId}], B_OK)

RemoveItemFromRoom(d, fk, itemId) ==
    IF itemId \in d.removed_items
    THEN Result(d, OnConflictIgnore)
    ELSE IF RefOk(fk, itemId, d.items)
         THEN Result([d EXCEPT !.removed_items = @ \cup {itemId}], B_OK)
         ELSE Result(d, B_ERROR)

UnlockExit(d, fk, roomId, direction) ==
    IF <<roomId, direction>> \in d.unlocked_exits
    THEN Result(d, OnConflictIgnore)
    ELSE IF RefOk(fk, roomId, d.rooms)
         THEN Result([d EXCEPT !.unlocked_exits =
                                   @ \cup {<<roomId, direction>>}], B_OK)
         ELSE Result(d, B_ERROR)

IsExitLocked(d, roomId, direction) ==
    /\ <<roomId, direction>> \in DOMAIN d.exit_conditions
    /\ <<roomId, direction>> \notin d.unlocked_exits

(* Queries: the ids of the rows returned *)

GetItemsInRoomFlaggedOnly(d, roomId) ==
    {i \in d.items \cap DOMAIN d.item_locations :
        /\ d.item_locations[i] = roomId
        /\ i \notin d.removed_items
        /\ d.is_visible[i]}

GetItemsInRoom(d, roomId) ==
    {i \in d.items \cap DOMAIN d.item_locations :
        /\ d.item_locations[i] = roomId
        /\ i \notin d.removed_items
        /\ (d.is_visible[i] \/ i \in d.revealed_items)}

GetInventoryItemsWithRemoved(d) ==
    {i \in d.items \cap DOMAIN d.item_locations :
        d.item_locations[i] = NULL}

GetInventoryItems(d) ==
    {i \in d.items \cap DOMAIN d.item_locations :
        /\ d.item_locations[i] = NULL
        /\ i \notin d.removed_items}

-----------------------------------------------------------------------------
(* MainWindow: the room it holds and the use-item handler.                 *)

(* Room(): the room MainWindow holds before any room was loaded *)
NoRoom == [id |-> 0, exits |-> [dd \in Directions |-> 0]]

(* _LoadCurrentRoom: returns early, keeping the room held, when GetRoom    *)
(* does not find the current room                                          *)
_LoadCurrentRoom(d, held) ==
    LET id == d.game_state.current_room_id
    IN IF id \in d.rooms THEN [id |-> id, exits |-> d.exits[id]] ELSE held

RECURSIVE Ascending(_)
Ascending(S) ==
    IF S = {} THEN <<>>
    ELSE LET m == CHOOSE x \in S : \A y \in S : x <= y
         IN <<m>> \o Ascending(S \ {m})

(* The ids of the rows returned, in the order of the scan: by rowid *)
GetItemActions(d, itemId, roomId) ==
    Ascending({a \in DOMAIN d.item_actions :
                 /\ d.item_actions[a].item_id = itemId
                 /\ d.item_actions[a].room_id \in {roomId, NULL}})

ActionKinds == {"reveal_item", "remove_item", "unlock_exit"}

(* The call the action's kind dispatches to; B_ERROR stands for "no call   *)
(* made": no target, no direction or an unknown kind                       *)
Dispatch(d, fk, row, held) ==
    IF row.action_type = "reveal_item"
    THEN IF row.target_item_id > 0
         THEN SetItemVisibility(d, fk, row.target_item_id, TRUE)
         ELSE Result(d, B_ERROR)
    ELSE IF row.action_type = "remove_item"
    THEN IF row.target_item_id > 0
         THEN RemoveItemFromRoom(d, fk, row.target_item_id)
         ELSE Result(d, B_ERROR)
    ELSE IF row.action_type = "unlock_exit"
    THEN IF row.target_direction # ""
         THEN UnlockExit(d, fk, held.id, row.target_direction)
         ELSE Result(d, B_ERROR)
    ELSE Result(d, B_ERROR)

ConsumeAlways(d, fk, row) == RemoveItemFromRoom(d, fk, row.item_id).db

Consume(d, fk, row) ==
    IF row.consumes_item THEN RemoveItemFromRoom(d, fk, row.item_id).db ELSE d

_ExecuteItemActionUnchecked(d, fk, actionId, held) ==
    LET row == d.item_actions[actionId]
        r == Dispatch(d, fk, row, held)
    IN [db |-> Consume(MarkActionCompleted(r.db, fk, actionId).db, fk, row),
        executed |-> <<actionId>>, success |-> TRUE]

_ExecuteItemAction(d, fk, actionId, held) ==
    LET row == d.item_actions[actionId]
        r == Dispatch(d, fk, row, held)
    IN IF r.status = B_OK
       THEN [db |-> Consume(MarkActionCompleted(r.db, fk, actionId).db,
                            fk, row),
             executed |-> <<actionId>>, success |-> TRUE]
       ELSE [db |-> r.db, executed |-> <<actionId>>, success |-> FALSE]

FirstMatching(d, actions) ==
    IF actions = <<>> THEN NULL ELSE Head(actions)

RECURSIVE FirstUncompleted(_, _)
FirstUncompleted(d, actions) ==
    IF actions = <<>> THEN NULL
    ELSE IF ~IsActionCompleted(d, Head(actions)) THEN Head(actions)
    ELSE FirstUncompleted(d, Tail(actions))

_UseItem(d, fk, itemId, held) ==
    LET actions == GetItemActions(d, itemId, d.game_state.current_room_id)
        a == FirstUncompleted(d, actions)
    IN IF a = NULL
       THEN [db |-> d, executed |-> <<>>, success |-> FALSE]
       ELSE _ExecuteItemAction(d, fk, a, held)

-----------------------------------------------------------------------------
(* GameEditor::AutoLayoutRooms: a breadth-first traversal from the start   *)
(* room.  A traversal t holds the store and the locals toProcess, visited  *)
(* and positions; processed lists the rooms taken from the queue so far.   *)

ProbeLimit == 10

GridSpacing == 100

GridStepSouthUp ==
    [north |-> <<0, -1>>, south |-> <<0, -1>>,
     east |-> <<1, 0>>, west |-> <<-1, 0>>]

(* connections[]: the grid step of each direction *)
GridStep ==
    [north |-> <<0, -1>>, south |-> <<0, 1>>,
     east |-> <<1, 0>>, west |-> <<-1, 0>>]

Occupied(positions, cell) ==
    \E r \in DOMAIN positions : positions[r] = cell

FreeCellBelow(positions, x, y) ==
    IF ~Occupied(positions, <<x, y>>) THEN <<x, y>>
    ELSE LET free == {offset \in 1..(ProbeLimit - 1) :
                        ~Occupied(positions, <<x, y + offset>>)}
         IN IF free = {} THEN <<x, y + ProbeLimit - 1>>
            ELSE <<x, y + (CHOOSE o \in free : \A q \in free : o <= q)>>

(* The cell given to a room whose target cell is (x, y): the target when  *)
(* it is free, else the first free cell among the ProbeLimit - 1 cells to *)
(* its right, else the last cell probed, free or not                      *)
FreeCell(positions, x, y) ==
    IF ~Occupied(positions, <<x, y>>) THEN <<x, y>>
    ELSE LET free == {offset \in 1..(ProbeLimit - 1) :
                        ~Occupied(positions, <<x + offset, y>>)}
         IN IF free = {} THEN <<x + ProbeLimit - 1, y>>
            ELSE <<x + (CHOOSE o \in free : \A q \in free : o <= q), y>>

SetGraphKeeps(d, roomId, x, y) == d

SetGraphAll(d, roomId, x, y) ==
    [d EXCEPT !.graph = [r \in DOMAIN @ |-> <<x, y>>]]

(* UPDATE rooms SET graph_x = ?, graph_y = ? WHERE id = ? *)
SetGraph(d, roomId, x, y) ==
    IF roomId \in d.rooms THEN [d EXCEPT !.graph[roomId] = <<x, y>>] ELSE d

(* One pass of the loop over connections[] *)
Connected(t, currentId, direction) ==
    LET connectedId == t.db.exits[currentId][direction]
    IN IF connectedId > 0 /\ connectedId \notin t.visited
       THEN LET at == t.positions[currentId]
                cell == FreeCell(t.positions,
                                 at[1] + GridStep[direction][1],
                                 at[2] + GridStep[direction][2])
            IN [t EXCEPT
                  !.positions = (connectedId :> cell) @@ @,
                  !.visited = @ \cup {connectedId},
                  !.toProcess = Append(@, connectedId),
                  !.db = SetGraph(@, connectedId, cell[1] * GridSpacing,
                                  cell[2] * GridSpacing)]
       ELSE t

(* One pass of the while loop: the room at the front of the queue *)
ProcessRoom(t) ==
    LET currentId == Head(t.toProcess)
        t0 == [t EXCEPT !.toProcess = Tail(@),
                        !.processed = Append(@, currentId)]
    IN IF currentId \in t.db.rooms
       THEN Connected(Connected(Connected(Connected(t0,
              currentId, "north"), currentId, "south"),
              currentId, "east"), currentId, "west")
       ELSE t0

BeginLayoutUnvisited(d, startRoomId) ==
    [db |-> SetGraph(d, startRoomId, 0, 0),
     toProcess |-> <<startRoomId>>,
     visited |-> {},
     positions |-> (startRoomId :> <<0, 0>>),
     processed |-> <<>>]

(* The statements before the loop *)
BeginLayout(d, startRoomId) ==
    [db |-> SetGraph(d, startRoomId, 0, 0),
     toProcess |-> <<startRoomId>>,
     visited |-> {startRoomId},
     positions |-> (startRoomId :> <<0, 0>>),
     processed |-> <<>>]

RECURSIVE RunLayout(_)
RunLayout(t) ==
    IF t.toProcess = <<>> THEN t ELSE RunLayout(ProcessRoom(t))

AutoLayoutRooms(d, startRoomId) ==
    LET t == RunLayout(BeginLayout(d, startRoomId))
    IN [db |-> t.db, status |-> B_OK, positions |-> t.positions,
        processed |-> t.processed]

-----------------------------------------------------------------------------
(* GameDatabase: reset and commit.  _ExecuteSQL hands the whole script to  *)
(* sqlite3_exec, which runs it statement by statement, each committed on   *)
(* its own, and stops at the first statement that fails.  failAt names the *)
(* statement a storage fault hits (0: none).                               *)

ClearStatements == 7

FkRowsOk(fk, d, loc) ==
    \A i \in DOMAIN loc : RefOk(fk, i, d.items) /\ RefOk(fk, loc[i], d.rooms)

(* INSERT INTO item_locations SELECT item_id, room_id FROM               *)
(* item_locations_initial: the rows of the snapshot join the live table. *)
RestoreInitialLosesRows(live, initial) == live

RestoreInitial(live, initial) == initial @@ live

(* UPDATE game_state SET current_room_id = (starting_room_id), score = 0, *)
(* health = 100, moves_count = 0 WHERE id = 1, on the row g.              *)
ResetGameStateRowKeepsMoves(g) ==
    [current_room_id |-> StartingRoomId, score |-> DefaultScore,
     health |-> DefaultHealth, moves_count |-> g.moves_count]

ResetGameStateRow(g) ==
    [current_room_id |-> StartingRoomId, score |-> DefaultScore,
     health |-> DefaultHealth, moves_count |-> 0]

ClearStep(d, fk, n) ==
    CASE n = 1 -> Result([d EXCEPT !.completed_actions = {}], B_OK)
      [] n = 2 -> Result([d EXCEPT !.removed_items = {}], B_OK)
      [] n = 3 -> Result([d EXCEPT !.revealed_items = {}], B_OK)
      [] n = 4 -> Result([d EXCEPT !.unlocked_exits = {}], B_OK)
      [] n = 5 -> Result([d EXCEPT !.item_locations = <<>>], B_OK)
      [] n = 6 -> IF /\ FkRowsOk(fk, d, d.item_locations_initial)
                     /\ DOMAIN d.item_locations_initial
                            \cap DOMAIN d.item_locations = {}
                  THEN Result([d EXCEPT !.item_locations =
                          RestoreInitial(@, d.item_locations_initial)], B_OK)
                  ELSE Result(d, B_ERROR)
      [] n = 7 -> IF RefOk(fk, StartingRoomId, d.rooms)
                  THEN Result([d EXCEPT !.game_state =
                                  ResetGameStateRow(@)], B_OK)
                  ELSE Result(d, B_ERROR)

RECURSIVE ExecClear(_, _, _, _)
ExecClear(d, fk, n, failAt) ==
    IF n > ClearStatements THEN Result(d, B_OK)
    ELSE IF n = failAt THEN Result(d, B_ERROR)
    ELSE LET r == ClearStep(d, fk, n)
         IN IF r.status # B_OK THEN r
            ELSE ExecClear(r.db, fk, n + 1, failAt)

ClearGameState(d, fk, failAt) == ExecClear(d, fk, 1, failAt)

(* DELETE FROM item_locations_initial; INSERT INTO item_locations_initial *)
(* SELECT item_id, room_id FROM item_locations: the snapshot after both.  *)
SaveSnapshotKeepsOldRows(live, initial) == initial @@ live

SaveSnapshot(live, initial) == live

SaveCurrentStateAsInitial(d, fk) ==
    IF FkRowsOk(fk, d, d.item_locations)
    THEN Result([d EXCEPT !.item_locations_initial =
                     SaveSnapshot(d.item_locations, @)], B_OK)
    ELSE Result([d EXCEPT !.item_locations_initial = <<>>], B_ERROR)

-----------------------------------------------------------------------------
(* GameEditor: authoring operations *)

CreateRoom(d, graphX, graphY) ==
    LET id == d.seq_rooms + 1
    IN Result([d EXCEPT !.rooms = @ \cup {id},
                        !.exits = (id :> NoExits) @@ @,
                        !.graph = (id :> <<graphX, graphY>>) @@ @,
                        !.seq_rooms = id], B_OK)

DirectionOk(direction) == direction \in Directions

ConnectRoomsBothWays(d, fk, roomId, direction, targetRoomId) ==
    IF ~DirectionOk(direction) THEN Result(d, B_BAD_VALUE)
    ELSE IF roomId \notin d.rooms THEN Result(d, B_OK)
    ELSE IF RefOk(fk, targetRoomId, d.rooms)
         THEN Result([d EXCEPT !.exits =
                        [q \in DOMAIN @ |->
                           IF q = roomId
                           THEN [@[q] EXCEPT ![direction] = targetRoomId]
                           ELSE IF q = targetRoomId
                           THEN [@[q] EXCEPT
                                   ![[north |-> "south", south |-> "north",
                                      east |-> "west", west |-> "east"]
                                       [direction]] = roomId]
                           ELSE @[q]]],
                     B_OK)
         ELSE Result(d, B_ERROR)

ConnectRooms(d, fk, roomId, direction, targetRoomId) ==
    IF ~DirectionOk(direction) THEN Result(d, B_BAD_VALUE)
    ELSE IF roomId \notin d.rooms THEN Result(d, B_OK)
    ELSE IF RefOk(fk, targetRoomId, d.rooms)
         THEN Result([d EXCEPT !.exits[roomId][direction] = targetRoomId],
                     B_OK)
         ELSE Result(d, B_ERROR)

DisconnectRoom(d, roomId, direction) ==
    IF ~DirectionOk(direction) THEN Result(d, B_BAD_VALUE)
    ELSE IF roomId \notin d.rooms THEN Result(d, B_OK)
    ELSE Result([d EXCEPT !.exits[roomId][direction] = NULL], B_OK)

CreateItem(d) ==
    LET id == d.seq_items + 1
    IN Result([d EXCEPT !.items = @ \cup {id},
                        !.is_visible = (id :> TRUE) @@ @,
                        !.seq_items = id], B_OK)

DeleteItem(d, fk, itemId) ==
    LET d1 == [d EXCEPT !.items = @ \ {itemId},
                        !.is_visible = Restrict(@, DOMAIN @ \ {itemId})]
    IN IF fk /\ itemId \in d.items
       THEN Result(CascadeItemDelete(d1, itemId), B_OK)
       ELSE Result(d1, B_OK)

PlaceItemOrIgnore(d, fk, itemId, roomId) ==
    IF itemId \in DOMAIN d.item_locations THEN Result(d, B_OK)
    ELSE IF RefOk(fk, itemId, d.items) /\ RefOk(fk, roomId, d.rooms)
    THEN Result([d EXCEPT !.item_locations = (itemId :> roomId) @@ @], B_OK)
    ELSE Result(d, B_ERROR)

PlaceItem(d, fk, itemId, roomId) ==
    IF RefOk(fk, itemId, d.items) /\ RefOk(fk, roomId, d.rooms)
    THEN Result([d EXCEPT !.item_locations =
                     (itemId :> roomId) @@ Restrict(@, DOMAIN @ \ {itemId})],
                B_OK)
    ELSE Result(d, B_ERROR)

CreateItemAction(d, fk, itemId, roomId, actionType, targetItemId, targetDirection, consumesItem) ==
    LET id == d.seq_actions + 1
        row == [item_id |-> itemId,
                room_id |-> IF roomId > 0 THEN roomId ELSE NULL,
                action_type |-> actionType,
                target_item_id |->
                    IF targetItemId > 0 THEN targetItemId ELSE NULL,
                target_direction |-> targetDirection,
                consumes_item |-> consumesItem]
    IN IF /\ RefOk(fk, row.item_id, d.items) /\ (fk => row.item_id # NULL)
          /\ RefOk(fk, row.room_id, d.rooms)
          /\ RefOk(fk, row.target_item_id, d.items)
       THEN Result([d EXCEPT !.item_actions = (id :> row) @@ @,
                             !.seq_actions = id], B_OK)
       ELSE Result(d, B_ERROR)

DeleteItemAction(d, fk, actionId) ==
    LET kept == DOMAIN d.item_actions \ {actionId}
    IN IF fk
       THEN Result(CascadeActions(d, kept), B_OK)
       ELSE Result([d EXCEPT !.item_actions = Restrict(@, kept)], B_OK)

CreateExitConditionOrReplace(d, fk, roomId, direction, requiredItemId) ==
    LET req == IF requiredItemId > 0 THEN requiredItemId ELSE NULL
    IN IF RefOk(fk, roomId, d.rooms) /\ RefOk(fk, req, d.items)
       THEN Result([d EXCEPT !.exit_conditions =
                        (<<roomId, direction>> :> req) @@ @], B_OK)
       ELSE Result(d, B_ERROR)

CreateExitCondition(d, fk, roomId, direction, requiredItemId) ==
    LET req == IF requiredItemId > 0 THEN requiredItemId ELSE NULL
    IN IF /\ <<roomId, direction>> \notin DOMAIN d.exit_conditions
          /\ RefOk(fk, roomId, d.rooms)
          /\ RefOk(fk, req, d.items)
       THEN Result([d EXCEPT !.exit_conditions =
                        (<<roomId, direction>> :> req) @@ @], B_OK)
       ELSE Result(d, B_ERROR)

DeleteExitCondition(d, roomId, direction) ==
    Result([d EXCEPT !.exit_conditions =
               Restrict(@, DOMAIN @ \ {<<roomId, direction>>})], B_OK)

-----------------------------------------------------------------------------
(* GameEditor::DeleteRoom: BEGIN TRANSACTION, redirect the game state off  *)
(* the room, clear the other rooms' references to it, delete the row,      *)
(* COMMIT; every failing step issues ROLLBACK and returns B_ERROR.         *)
(* otherRoomId is the row "SELECT id FROM rooms WHERE id != ? LIMIT 1"     *)
(* yields (NULL: no row).  failAt names the statement a storage fault hits *)
(* (0: none; 1: the game-state update; 2..5: the four reference updates;   *)
(* 6: the delete).                                                         *)

DeleteRoomStatements == 6

DirColumns == <<"north", "south", "east", "west">>

RollbackLost(before, partial) == partial

Rollback(before, partial) == before

OtherRooms(d, roomId) == d.rooms \ {roomId}

ClearColumn(d, col, roomId) ==
    [d EXCEPT !.exits =
        [x \in DOMAIN @ |->
           [dd \in Directions |->
              IF dd = col /\ @[x][dd] = roomId THEN NULL ELSE @[x][dd]]]]

RECURSIVE ClearReferences(_, _, _, _, _)
ClearReferences(before, d, roomId, n, failAt) ==
    IF n > Len(DirColumns) THEN Result(d, B_OK)
    ELSE IF failAt = n + 1 THEN Result(Rollback(before, d), B_ERROR)
    ELSE ClearReferences(before, ClearColumn(d, DirColumns[n], roomId),
                         roomId, n + 1, failAt)

DeleteRoomRow(before, d, fk, roomId, failAt) ==
    IF failAt = DeleteRoomStatements
       \/ (fk /\ roomId \in d.rooms /\ d.game_state.current_room_id = roomId)
    THEN Result(Rollback(before, d), B_ERROR)
    ELSE LET d1 == [d EXCEPT !.rooms = @ \ {roomId},
                             !.exits = Restrict(@, DOMAIN @ \ {roomId}),
                             !.graph = Restrict(@, DOMAIN @ \ {roomId})]
         IN IF fk /\ roomId \in d.rooms
            THEN Result(CascadeRoomDelete(d1, roomId), B_OK)
            ELSE Result(d1, B_OK)

DeleteRoom(d, fk, roomId, otherRoomId, failAt) ==
    LET redirect == d.game_state.current_room_id = roomId
        d1 == IF redirect
              THEN [d EXCEPT !.game_state.current_room_id = otherRoomId]
              ELSE d
    IN IF redirect /\ otherRoomId = NULL
       THEN Result(Rollback(d, d), B_ERROR)
       ELSE IF redirect /\ failAt = 1
       THEN Result(Rollback(d, d), B_ERROR)
       ELSE LET r == ClearReferences(d, d1, roomId, 1, failAt)
            IN IF r.status # B_OK THEN r
               ELSE DeleteRoomRow(d, r.db, fk, roomId, failAt)

-----------------------------------------------------------------------------
(* The session: one GameDatabase, its GameEditor and the file at DbPath.   *)
(* db is the content of the file; it outlives the connection.              *)
(* last is the call made last and the status it returned, for the calls in *)
(* Observed; any other call is recorded as "other", with B_NO_INIT when    *)
(* that is what it returned and without its status otherwise.              *)
(* committed is the live placement at the last successful                  *)
(* SaveAsInitialState, kept while only play operations follow it.          *)
(* fCurrentRoom is the id of the room MainWindow holds, as loaded by the   *)
(* last _LoadCurrentRoom that found the current room.                      *)
(* sinceReset holds what happened since the store was created or last     *)
(* reset: the locked exits on which UnlockExit succeeded, and the items    *)
(* that were put in the Removed-Item log.                                  *)
(* layout holds the locals of AutoLayoutRooms while it runs, the store it  *)
(* started from, and what its last run visited.                            *)

DbPath == "game.db"

Paths == {"", DbPath}

NoFault == 0

NoCommit == [set |-> FALSE, item_locations |-> <<>>]

(* AutoLayoutRooms is not running: its locals do not exist *)
NoLayout ==
    [running |-> FALSE, runs |-> 0, startRoomId |-> NULL,
     before |-> EmptyDb, toProcess |-> <<>>, visited |-> {},
     positions |-> <<>>, processed |-> <<>>]

NoneSince == [unlocked |-> {}, removed |-> {}]

Observed == {"ClearGameState", "DeleteRoom", "AutoLayoutRooms"}

Init ==
    /\ db = EmptyDb
    /\ fDatabase = FALSE
    /\ fDatabasePath = ""
    /\ foreign_keys = FALSE
    /\ fileExists = FALSE
    /\ last = [op |-> "other", status |-> B_OK]
    /\ committed = NoCommit
    /\ fCurrentRoom = NoRoom
    /\ sinceReset = NoneSince
    /\ layout = NoLayout

Returned(op, status) ==
    last' = IF op \in Observed
            THEN [op |-> op, status |-> status]
            ELSE [op |-> "other",
                  status |-> IF status = B_NO_INIT THEN B_NO_INIT ELSE B_OK]

SessionUnchanged ==
    UNCHANGED <<fDatabase, fDatabasePath, foreign_keys, fileExists,
                fCurrentRoom, layout>>

CallUnguarded(op, r) ==
    /\ SessionUnchanged
    /\ db' = r.db
    /\ Returned(op, r.status)

(* A call on the store: B_NO_INIT while no store is open *)
Call(op, r) ==
    /\ SessionUnchanged
    /\ IF fDatabase
       THEN db' = r.db /\ Returned(op, r.status)
       ELSE db' = db /\ Returned(op, B_NO_INIT)

(* What was unlocked, and which of the items there are were removed,    *)
(* since the last reset: ClearGameState ends the record of every row    *)
(* its DELETE statements got to clear                                   *)
Unlocked(op, keys) ==
    sinceReset' =
      IF op = "ClearGameState" /\ fDatabase
      THEN [unlocked |-> sinceReset.unlocked \cap db'.unlocked_exits,
            removed |-> sinceReset.removed \cap db'.removed_items]
      ELSE [unlocked |-> sinceReset.unlocked \cup keys,
            removed |-> (sinceReset.removed
                           \cup (db'.removed_items \ db.removed_items))
                          \cap db'.items]

(* A play operation leaves the commit standing, an authoring one ends it *)
Play(op, r) == Call(op, r) /\ UNCHANGED committed /\ Unlocked(op, {})

Author(op, r) == Call(op, r) /\ committed' = NoCommit /\ Unlocked(op, {})

CreateNew(path) ==
    IF path = ""
    THEN /\ Returned("CreateNew", B_BAD_VALUE)
         /\ UNCHANGED <<db, fDatabase, fDatabasePath, foreign_keys,
                        fileExists, committed, fCurrentRoom, layout,
                        sinceReset>>
    ELSE /\ db' = StarterContent
         /\ fDatabase' = TRUE
         /\ fDatabasePath' = path
         /\ foreign_keys' = TRUE
         /\ fileExists' = TRUE
         /\ committed' = NoCommit
         /\ sinceReset' = NoneSince
         /\ Returned("CreateNew", B_OK)
         /\ UNCHANGED <<fCurrentRoom, layout>>

Open(path) ==
    IF path = ""
    THEN /\ Returned("Open", B_BAD_VALUE)
         /\ UNCHANGED <<db, fDatabase, fDatabasePath, foreign_keys,
                        fileExists, committed, fCurrentRoom, layout,
                        sinceReset>>
    ELSE IF ~fileExists
    THEN /\ Returned("Open", B_ENTRY_NOT_FOUND)
         /\ UNCHANGED <<db, fDatabase, fDatabasePath, foreign_keys,
                        fileExists, committed, fCurrentRoom, layout,
                        sinceReset>>
    ELSE /\ fDatabase' = TRUE
         /\ fDatabasePath' = path
         /\ foreign_keys' = FALSE
         /\ committed' = NoCommit
         /\ Returned("Open", B_OK)
         /\ UNCHANGED <<db, fileExists, fCurrentRoom, layout, sinceReset>>

Close ==
    /\ fDatabase' = FALSE
    /\ fDatabasePath' = ""
    /\ foreign_keys' = FALSE
    /\ committed' = NoCommit
    /\ Returned("Close", B_OK)
    /\ UNCHANGED <<db, fileExists, fCurrentRoom, layout, sinceReset>>

(* Arguments the calls are made with *)

RoomArgs == 1..MaxRoomId

ItemArgs == 1..MaxItemId

ActionArgs == 1..MaxActionId

DoCreateNew == \E path \in Paths : CreateNew(path)

DoOpen == \E path \in Paths : Open(path)

DoClose == Close

NewRoomAt == {<<0, 0>>, <<0, 100>>}

DoCreateRoom ==
    /\ fDatabase => db.seq_rooms < MaxRoomId
    /\ \E at \in NewRoomAt :
         Author("CreateRoom", CreateRoom(db, at[1], at[2]))

DoConnectRooms(R, D, T) ==
    \E roomId \in R, direction \in D, targetRoomId \in T :
      Author("ConnectRooms",
             ConnectRooms(db, foreign_keys, roomId, direction, targetRoomId))

DoDisconnectRoom(R, D) ==
    \E roomId \in R, direction \in D :
      Author("DisconnectRoom", DisconnectRoom(db, roomId, direction))

DoDeleteRoom(R, F) ==
    \E roomId \in R, failAt \in F :
      \E other \in IF fDatabase /\ OtherRooms(db, roomId) # {}
                   THEN OtherRooms(db, roomId) ELSE {NULL} :
        Author("DeleteRoom",
               DeleteRoom(db, foreign_keys, roomId, other, failAt))

DoCreateItem ==
    /\ fDatabase => db.seq_items < MaxItemId
    /\ Author("CreateItem", CreateItem(db))

DoDeleteItem(I) ==
    \E itemId \in I :
      Author("DeleteItem", DeleteItem(db, foreign_keys, itemId))

DoPlaceItem(I, R) ==
    \E itemId \in I, roomId \in R :
      Author("PlaceItem", PlaceItem(db, foreign_keys, itemId, roomId))

DoSaveAsInitialState ==
    /\ Call("SaveAsInitialState", SaveCurrentStateAsInitial(db, foreign_keys))
    /\ UNCHANGED sinceReset
    /\ committed' =
         IF fDatabase
            /\ SaveCurrentStateAsInitial(db, foreign_keys).status = B_OK
         THEN [set |-> TRUE, item_locations |-> db.item_locations]
         ELSE NoCommit

DoClearGameState(F) ==
    \E failAt \in F :
      Play("ClearGameState", ClearGameState(db, foreign_keys, failAt))

DoUpdateGameState(S) ==
    \E s \in S :
      Author("UpdateGameState",
             UpdateGameState(db, foreign_keys, db.game_state.current_room_id,
                             s[1], s[2], db.game_state.moves_count))

DoMoveToRoom(R) ==
    /\ fDatabase => db.game_state.moves_count < MaxMoves
    /\ \E roomId \in R :
         Play("MoveToRoom", MoveToRoom(db, foreign_keys, roomId))

DoMoveItemToInventory(I) ==
    \E itemId \in I :
      Play("MoveItemToInventory", MoveItemToInventory(db, itemId))

DoMoveItemToRoom(I, R) ==
    \E itemId \in I, roomId \in R :
      Play("MoveItemToRoom", MoveItemToRoom(db, foreign_keys, itemId, roomId))

DoRemoveItemFromRoom(I) ==
    \E itemId \in I :
      Play("RemoveItemFromRoom", RemoveItemFromRoom(db, foreign_keys, itemId))

DoSetItemVisibility(I) ==
    \E itemId \in I, visible \in BOOLEAN :
      Play("SetItemVisibility",
           SetItemVisibility(db, foreign_keys, itemId, visible))

DoMarkActionCompleted(A) ==
    \E actionId \in A :
      Play("MarkActionCompleted",
           MarkActionCompleted(db, foreign_keys, actionId))

DoUnlockExit(R, D) ==
    \E roomId \in R, direction \in D :
      LET r == UnlockExit(db, foreign_keys, roomId, direction)
      IN /\ Call("UnlockExit", r)
         /\ UNCHANGED committed
         /\ Unlocked("UnlockExit",
                     IF /\ fDatabase
                        /\ r.status = B_OK
                        /\ IsExitLocked(db, roomId, direction)
                     THEN {<<roomId, direction>>} ELSE {})

DoCreateItemAction(I, R, K, T, D, C) ==
    /\ fDatabase => db.seq_actions < MaxActionId
    /\ \E itemId \in I, roomId \in R, actionType \in K, targetItemId \in T,
          targetDirection \in D, consumesItem \in C :
         Author("CreateItemAction",
                CreateItemAction(db, foreign_keys, itemId, roomId, actionType,
                                 targetItemId, targetDirection, consumesItem))

DoDeleteItemAction(A) ==
    \E actionId \in A :
      Author("DeleteItemAction", DeleteItemAction(db, foreign_keys, actionId))

DoCreateExitCondition(R, D, I) ==
    \E roomId \in R, direction \in D, requiredItemId \in I :
      Author("CreateExitCondition",
             CreateExitCondition(db, foreign_keys, roomId, direction,
                                 requiredItemId))

DoDeleteExitCondition(R, D) ==
    \E roomId \in R, direction \in D :
      Author("DeleteExitCondition", DeleteExitCondition(db, roomId, direction))

-----------------------------------------------------------------------------
(* Spec: play and reset on the starter world.  The store is created, maybe *)
(* reopened, played on, committed, reset, and its rooms deleted.           *)

PlayRooms == {1, 2}

PlayItems == {1}

LogItems == {1}

LogActions == {1}

LogExits == {"south"}

MoveRooms == PlayRooms \cup {MaxRoomId}

StateArgs == {<<DefaultScore, DefaultHealth>>, <<10, 50>>}

ClearFaults == 0..ClearStatements

DeleteRoomFaults == 0..DeleteRoomStatements

Next ==
    \/ DoCreateNew
    \/ DoOpen
    \/ DoDeleteRoom(PlayRooms, DeleteRoomFaults)
    \/ DoUpdateGameState(StateArgs)
    \/ DoMoveToRoom(MoveRooms)
    \/ DoMoveItemToInventory(PlayItems)
    \/ DoMoveItemToRoom(PlayItems, PlayRooms)
    \/ DoRemoveItemFromRoom(LogItems)
    \/ DoSetItemVisibility(LogItems)
    \/ DoMarkActionCompleted(LogActions)
    \/ DoUnlockExit({StartingRoomId}, LogExits)
    \/ DoSaveAsInitialState
    \/ DoClearGameState(ClearFaults)

Spec == Init /\ [][Next]_vars

-----------------------------------------------------------------------------
(* Claims checked under Spec *)

ClearedOk == last = [op |-> "ClearGameState", status |-> B_OK]

NoEventLogs(d) ==
    /\ d.completed_actions = {}
    /\ d.removed_items = {}
    /\ d.revealed_items = {}
    /\ d.unlocked_exits = {}

(* C2: ClearGameState is all-or-nothing: when it returns an error, the    *)
(* event logs, the live placements and the game state are as before the   *)
(* call.                                                                  *)
C2_ResetAllOrNothing ==
    fDatabase =>
      LET r == ClearGameState(db, foreign_keys, NoFault)
      IN r.status # B_OK => r.db = db

(* C3: after a successful ClearGameState the four event logs are empty,   *)
(* the live placements equal the Initial-Placement snapshot and the game  *)
(* state is (starting room, score 0, health 100, moves 0).                *)
C3_ResetRestores ==
    ClearedOk =>
      /\ NoEventLogs(db)
      /\ db.item_locations = db.item_locations_initial
      /\ db.game_state = [current_room_id |-> StartingRoomId, score |-> 0,
                          health |-> 100, moves_count |-> 0]

C3_Witness ==
    /\ ClearedOk
    /\ db.item_locations = db.item_locations_initial
    /\ db.item_locations # StarterContent.item_locations

(* C4: reset is idempotent: a second ClearGameState right after a first   *)
(* returns the same status and leaves the same store, and the live        *)
(* placements after the reset are exactly the Initial-Placement snapshot. *)
C4_ResetIdempotent ==
    fDatabase =>
      LET r1 == ClearGameState(db, foreign_keys, NoFault)
          r2 == ClearGameState(r1.db, foreign_keys, NoFault)
      IN /\ r2.db = r1.db
         /\ r2.status = r1.status
         /\ r1.db.item_locations = db.item_locations_initial

C4_Witness ==
    /\ ClearedOk
    /\ fDatabase
    /\ ~foreign_keys
    /\ ClearGameState(db, foreign_keys, NoFault) = Result(db, B_OK)

(* C5: after SaveAsInitialState succeeds with live placement P and only   *)
(* play operations follow, a successful ClearGameState makes the live     *)
(* placement equal to P again.                                            *)
C5_CommitResetRoundTrip ==
    (ClearedOk /\ committed.set) =>
      db.item_locations = committed.item_locations

C5_Witness ==
    /\ ClearedOk
    /\ committed.set
    /\ 1 \in DOMAIN committed.item_locations
    /\ committed.item_locations[1] = NULL
    /\ db.item_locations = committed.item_locations

(* C8: when exactly one room exists, DeleteRoom on it returns an error    *)
(* and changes nothing; the number of rooms never drops to zero.          *)
C8_LastRoomGuard ==
    fDatabase =>
      /\ db.rooms # {}
      /\ Cardinality(db.rooms) = 1 =>
           \A r \in db.rooms :
             DeleteRoom(db, foreign_keys, r, NULL, NoFault)
               = Result(db, B_ERROR)

(* C9: DeleteRoom is atomic: whenever it returns an error, at whichever   *)
(* step, the store is exactly as before the call.                         *)
C9_DeleteRoomAtomic ==
    fDatabase =>
      \A r \in RoomArgs, failAt \in DeleteRoomFaults :
        \A other \in IF OtherRooms(db, r) # {}
                     THEN OtherRooms(db, r) ELSE {NULL} :
          LET res == DeleteRoom(db, foreign_keys, r, other, failAt)
          IN res.status # B_OK => res.db = db

C9_Witness ==
    /\ last = [op |-> "DeleteRoom", status |-> B_ERROR]
    /\ db.rooms = {1, 2}
    /\ db.exits[1]["south"] = 2
    /\ db.game_state.current_room_id = 2

(* The store after a move to roomId that took place *)
Moved(d, roomId) ==
    [d EXCEPT !.game_state.current_room_id = roomId,
              !.game_state.moves_count = @ + 1]

(* C20 as stated: on an open store MoveToRoom(roomId) succeeds for any   *)
(* roomId, existing or not, sets the current room, adds one to the move  *)
(* counter and changes nothing else.                                     *)
C20_Original ==
    fDatabase =>
      \A roomId \in RoomArgs :
        MoveToRoom(db, foreign_keys, roomId) = Result(Moved(db, roomId), B_OK)

(* C20: on an open store MoveToRoom(roomId) succeeds for every existing  *)
(* room, and for any roomId when the connection does not enforce foreign *)
(* keys: it sets the current room, adds one to the move counter and      *)
(* changes nothing else.  On a connection that enforces foreign keys, a  *)
(* roomId that does not exist yields a storage error and no change.      *)
C20_MoveToRoom ==
    fDatabase =>
      \A roomId \in RoomArgs :
        MoveToRoom(db, foreign_keys, roomId) =
          IF roomId \in db.rooms \/ ~foreign_keys
          THEN Result(Moved(db, roomId), B_OK)
          ELSE Result(db, B_ERROR)

C20_Witness ==
    /\ fDatabase
    /\ ~foreign_keys
    /\ db.game_state.current_room_id = MaxRoomId
    /\ MaxRoomId \notin db.rooms
    /\ db.game_state.moves_count = 1
    /\ db.removed_items # {}

-----------------------------------------------------------------------------
(* SpecAuthor: authoring on the starter world.  An item is created, placed *)
(* and deleted, a puzzle action and an exit condition are defined on the   *)
(* Mountain Path (room 2), the event logs are written, and the room is     *)
(* deleted.                                                                *)

NewItem == MaxItemId

PuzzleRoom == 2

NextAuthor ==
    \/ DoCreateNew
    \/ DoOpen
    \/ DoCreateItem
    \/ DoPlaceItem({NewItem}, PlayRooms)
    \/ DoDeleteItem({1, NewItem})
    \/ DoDeleteRoom({PuzzleRoom}, {NoFault})
    \/ DoCreateItemAction({1}, {PuzzleRoom}, {"reveal_item"}, {NewItem},
                          {""}, {FALSE})
    \/ DoCreateExitCondition({PuzzleRoom}, {"north"}, {1})
    \/ DoMarkActionCompleted(ActionArgs)
    \/ DoSetItemVisibility({NewItem})
    \/ DoRemoveItemFromRoom({1})
    \/ DoUnlockExit({PuzzleRoom}, {"north"})
    \/ DoMoveItemToInventory({1})

SpecAuthor == Init /\ [][NextAuthor]_vars

-----------------------------------------------------------------------------
(* Claims checked under SpecAuthor *)

(* C1: every existing item has exactly one live placement record, a room  *)
(* or the inventory, never two and never zero.                            *)
C1_PlacementUniqueness ==
    fDatabase => \A i \in db.items : i \in DOMAIN db.item_locations

NoItemRefs(d, i) ==
    /\ i \notin DOMAIN d.item_locations
    /\ i \notin DOMAIN d.item_locations_initial
    /\ \A a \in DOMAIN d.item_actions :
         d.item_actions[a].item_id # i /\ d.item_actions[a].target_item_id # i
    /\ \A c \in d.item_combinations : i \notin {c[1], c[2], c[3]}
    /\ i \notin d.removed_items
    /\ i \notin d.revealed_items

(* C6: after DeleteItem(i) succeeds on an open store, created in this     *)
(* session or opened from a file, no live placement, initial placement,   *)
(* item action, item combination or removed/revealed log row references   *)
(* item i.                                                                *)
C6_DeleteItemCascade ==
    fDatabase =>
      \A i \in ItemArgs :
        LET r == DeleteItem(db, foreign_keys, i)
        IN r.status = B_OK => NoItemRefs(r.db, i)

NoRoomRefs(d, r) ==
    /\ \A x \in d.rooms : \A dd \in Directions : d.exits[x][dd] # r
    /\ \A a \in DOMAIN d.item_actions : d.item_actions[a].room_id # r
    /\ \A k \in DOMAIN d.exit_conditions : k[1] # r
    /\ \A k \in d.unlocked_exits : k[1] # r

(* C7: after DeleteRoom(r) succeeds, no remaining room has a directional  *)
(* reference to r, and no item action, exit condition or unlocked-exit    *)
(* row references r.                                                      *)
C7_DeleteRoomCascade ==
    fDatabase =>
      \A r \in RoomArgs :
        \A other \in IF OtherRooms(db, r) # {}
                     THEN OtherRooms(db, r) ELSE {NULL} :
          LET res == DeleteRoom(db, foreign_keys, r, other, NoFault)
          IN res.status = B_OK => NoRoomRefs(res.db, r)

(* What the queries of the claim return on the store d *)
Observations(d) ==
    [completed |-> {a \in ActionArgs : IsActionCompleted(d, a)},
     inRoom |-> [r \in RoomArgs |-> GetItemsInRoom(d, r)],
     inventory |-> GetInventoryItems(d),
     locked |-> {k \in RoomArgs \X Directions : IsExitLocked(d, k[1], k[2])}]

SameAsOnce(r1, r2) ==
    /\ r2.status = r1.status
    /\ r2.db = r1.db
    /\ Observations(r2.db) = Observations(r1.db)

BothSucceed(r1, r2) == r1.status = B_OK /\ r2.status = B_OK

(* C10 as stated: for every action id, item id and (room, direction),     *)
(* calling MarkActionCompleted, SetItemVisibility(item, true),            *)
(* RemoveItemFromRoom or UnlockExit twice in a row succeeds both times    *)
(* and leaves the same store and query results as calling it once.        *)
C10_Original ==
    fDatabase =>
      /\ \A a \in ActionArgs :
           LET r1 == MarkActionCompleted(db, foreign_keys, a)
               r2 == MarkActionCompleted(r1.db, foreign_keys, a)
           IN BothSucceed(r1, r2) /\ SameAsOnce(r1, r2)
      /\ \A i \in ItemArgs :
           LET r1 == SetItemVisibility(db, foreign_keys, i, TRUE)
               r2 == SetItemVisibility(r1.db, foreign_keys, i, TRUE)
           IN BothSucceed(r1, r2) /\ SameAsOnce(r1, r2)
      /\ \A i \in ItemArgs :
           LET r1 == RemoveItemFromRoom(db, foreign_keys, i)
               r2 == RemoveItemFromRoom(r1.db, foreign_keys, i)
           IN BothSucceed(r1, r2) /\ SameAsOnce(r1, r2)
      /\ \A r \in RoomArgs, dd \in Directions :
           LET r1 == UnlockExit(db, foreign_keys, r, dd)
               r2 == UnlockExit(r1.db, foreign_keys, r, dd)
           IN BothSucceed(r1, r2) /\ SameAsOnce(r1, r2)

(* C10 as amended: the second of two calls in a row returns the status of *)
(* the first and leaves the store and the query results as the first left *)
(* them; both succeed when the action, item or room named exists or the   *)
(* connection does not enforce foreign keys.                              *)
C10_EventLogIdempotent ==
    fDatabase =>
      /\ \A a \in ActionArgs :
           LET r1 == MarkActionCompleted(db, foreign_keys, a)
               r2 == MarkActionCompleted(r1.db, foreign_keys, a)
           IN /\ SameAsOnce(r1, r2)
              /\ (a \in DOMAIN db.item_actions \/ ~foreign_keys)
                   => BothSucceed(r1, r2)
      /\ \A i \in ItemArgs :
           LET r1 == SetItemVisibility(db, foreign_keys, i, TRUE)
               r2 == SetItemVisibility(r1.db, foreign_keys, i, TRUE)
           IN /\ SameAsOnce(r1, r2)
              /\ (i \in db.items \/ ~foreign_keys) => BothSucceed(r1, r2)
      /\ \A i \in ItemArgs :
           LET r1 == RemoveItemFromRoom(db, foreign_keys, i)
               r2 == RemoveItemFromRoom(r1.db, foreign_keys, i)
           IN /\ SameAsOnce(r1, r2)
              /\ (i \in db.items \/ ~foreign_keys) => BothSucceed(r1, r2)
      /\ \A r \in RoomArgs, dd \in Directions :
           LET r1 == UnlockExit(db, foreign_keys, r, dd)
               r2 == UnlockExit(r1.db, foreign_keys, r, dd)
           IN /\ SameAsOnce(r1, r2)
              /\ (r \in db.rooms \/ ~foreign_keys) => BothSucceed(r1, r2)

C10_Witness ==
    /\ fDatabase
    /\ foreign_keys
    /\ db.completed_actions # {}
    /\ db.revealed_items # {}
    /\ db.removed_items # {}
    /\ db.unlocked_exits # {}
    /\ \E k \in DOMAIN db.exit_conditions : ~IsExitLocked(db, k[1], k[2])

(* C32: PlaceItem(i, r) is an upsert: when it succeeds, whether or not   *)
(* item i had a live placement row before, i has one live placement row  *)
(* and it points to room r; the snapshot of initial placements and the   *)
(* four event logs are as they were (nothing but the live placements     *)
(* changes, and of these only the row of i).                             *)
C32_PlaceItemUpsert ==
    fDatabase =>
      \A itemId \in ItemArgs, roomId \in RoomArgs :
        LET p == PlaceItem(db, foreign_keys, itemId, roomId)
        IN p.status = B_OK =>
             /\ itemId \in DOMAIN p.db.item_locations
             /\ p.db.item_locations[itemId] = roomId
             /\ p.db = [db EXCEPT !.item_locations = p.db.item_locations]
             /\ \A other \in DOMAIN db.item_locations \ {itemId} :
                  /\ other \in DOMAIN p.db.item_locations
                  /\ p.db.item_locations[other] = db.item_locations[other]
             /\ DOMAIN p.db.item_locations
                  = DOMAIN db.item_locations \cup {itemId}

(* The new item was placed in room 1, and placing it again, in room 2, *)
(* succeeds; so does placing an item that has no row                   *)
C32_Witness ==
    /\ fDatabase
    /\ NewItem \in db.items
    /\ NewItem \in DOMAIN db.item_locations
    /\ db.item_locations[NewItem] = 1
    /\ NewItem \notin DOMAIN db.item_locations_initial
    /\ PlaceItem(db, foreign_keys, NewItem, 2).status = B_OK
    /\ \E itemId \in db.items \ DOMAIN db.item_locations :
         PlaceItem(db, foreign_keys, itemId, 2).status = B_OK

(* C33: there is at most one exit condition per (room, direction):       *)
(* CreateExitCondition adds a condition only for a (room, direction)     *)
(* that has none, and for one that has a condition it returns B_ERROR    *)
(* and leaves the store, that condition included, as it was.             *)
C33_OneConditionPerExit ==
    fDatabase =>
      \A roomId \in RoomArgs, direction \in Directions,
         requiredItemId \in 0..MaxItemId :
        LET k == <<roomId, direction>>
            c == CreateExitCondition(db, foreign_keys, roomId, direction,
                                     requiredItemId)
        IN /\ k \in DOMAIN db.exit_conditions
                => c = Result(db, B_ERROR)
           /\ c.status = B_OK
                => /\ k \notin DOMAIN db.exit_conditions
                   /\ DOMAIN c.db.exit_conditions
                        = DOMAIN db.exit_conditions \cup {k}
                   /\ \A other \in DOMAIN db.exit_conditions :
                        c.db.exit_conditions[other]
                          = db.exit_conditions[other]

(* The exit north of the puzzle room has a condition requiring item 1, *)
(* and a second one for it, requiring the new item, is refused         *)
C33_Witness ==
    /\ fDatabase
    /\ <<PuzzleRoom, "north">> \in DOMAIN db.exit_conditions
    /\ db.exit_conditions[<<PuzzleRoom, "north">>] = 1
    /\ NewItem \in db.items
    /\ CreateExitCondition(db, foreign_keys, PuzzleRoom, "north",
                           NewItem).status = B_ERROR

-----------------------------------------------------------------------------
(* Exit locks, checked under SpecAuthor *)

ExitKeys == RoomArgs \X Directions

LockedIff(d, k) ==
    IsExitLocked(d, k[1], k[2])
      <=> (k \in DOMAIN d.exit_conditions /\ k \notin d.unlocked_exits)

UnlockOpens(d, fk, k) ==
    LET u == UnlockExit(d, fk, k[1], k[2])
    IN IsExitLocked(d, k[1], k[2])
         => (u.status = B_OK /\ ~IsExitLocked(u.db, k[1], k[2]))

ExitLockRule ==
    fDatabase =>
      \A k \in ExitKeys :
        /\ LockedIff(db, k)
        /\ (k \notin DOMAIN db.exit_conditions
              => ~IsExitLocked(db, k[1], k[2]))
        /\ UnlockOpens(db, foreign_keys, k)

(* C11 as stated: IsExitLocked(room, direction) is true iff an exit       *)
(* condition exists for (room, direction) and no unlocked-exit row does;  *)
(* it is false without a condition, false after UnlockExit on a locked    *)
(* exit, and an unlocked exit stays unlocked until the next reset.        *)
C11_Original ==
    /\ []ExitLockRule
    /\ [](fDatabase =>
            \A k \in sinceReset.unlocked : ~IsExitLocked(db, k[1], k[2]))

-----------------------------------------------------------------------------
(* SpecPuzzle: MainWindow playing a store file that holds an authored      *)
(* puzzle.  The file is the starter world of a saved game: the Stone       *)
(* (item 1) is in the inventory, a hidden Gem (item 3) lies in the Dark    *)
(* Cave (room 1), the cave's south exit has a condition, and the Stone has *)
(* WorldActions actions drawn from ActionRows.  Without a file the window  *)
(* creates the starter world.                                              *)

WorldActions == 2

Gem == 3

ActionRow(roomId, actionType, targetItemId, targetDirection, consumesItem) ==
    [item_id |-> 1, room_id |-> roomId, action_type |-> actionType,
     target_item_id |-> targetItemId, target_direction |-> targetDirection,
     consumes_item |-> consumesItem]

ActionRows ==
    {ActionRow(NULL, "reveal_item", Gem, "", FALSE),
     ActionRow(2, "remove_item", 2, "", TRUE),
     ActionRow(NULL, "remove_item", 1, "", FALSE),
     ActionRow(NULL, "unlock_exit", NULL, "south", FALSE),
     ActionRow(NULL, "open_portal", Gem, "south", TRUE),
     ActionRow(NULL, "reveal_item", NULL, "", TRUE)}

PuzzleWorld(actions) ==
    [StarterContent EXCEPT
       !.items = {1, 2, Gem},
       !.is_visible = <<TRUE, TRUE, FALSE>>,
       !.item_locations = <<NULL, 2, 1>>,
       !.item_locations_initial = <<2, 2, 1>>,
       !.exit_conditions = (<<1, "south">> :> 1),
       !.item_actions = actions,
       !.seq_items = Gem,
       !.seq_actions = WorldActions]

PuzzleWorlds == {PuzzleWorld(a) : a \in [1..WorldActions -> ActionRows]}

InitPuzzle ==
    /\ fileExists \in BOOLEAN
    /\ db \in IF fileExists THEN PuzzleWorlds ELSE {EmptyDb}
    /\ fDatabase = FALSE
    /\ fDatabasePath = ""
    /\ foreign_keys = FALSE
    /\ last = [op |-> "other", status |-> B_OK]
    /\ committed = NoCommit
    /\ fCurrentRoom = NoRoom
    /\ sinceReset = NoneSince
    /\ layout = NoLayout

(* A handler of MainWindow on the open store: it leaves the store d, and   *)
(* when its call succeeded it ends with _LoadCurrentRoom                   *)
Handler(op, d, ok, keys) ==
    /\ fDatabase
    /\ db' = d
    /\ fCurrentRoom' = IF ok THEN _LoadCurrentRoom(d, fCurrentRoom)
                       ELSE fCurrentRoom
    /\ Returned(op, IF ok THEN B_OK ELSE B_ERROR)
    /\ Unlocked(op, keys)
    /\ UNCHANGED <<fDatabase, fDatabasePath, foreign_keys, fileExists,
                   committed, layout>>

(* At start-up: open the store file if there is one, else create it *)
_InitializeDatabase ==
    /\ ~fDatabase
    /\ fDatabase' = TRUE
    /\ fDatabasePath' = DbPath
    /\ fileExists' = TRUE
    /\ foreign_keys' = ~fileExists
    /\ db' = IF fileExists THEN db ELSE StarterContent
    /\ fCurrentRoom' = _LoadCurrentRoom(db', fCurrentRoom)
    /\ committed' = NoCommit
    /\ sinceReset' = IF fileExists THEN sinceReset ELSE NoneSince
    /\ Returned(IF fileExists THEN "Open" ELSE "CreateNew", B_OK)
    /\ UNCHANGED layout

(* A store file dropped on the window *)
B_REFS_RECEIVED ==
    /\ fileExists
    /\ fDatabase' = TRUE
    /\ fDatabasePath' = DbPath
    /\ foreign_keys' = FALSE
    /\ fCurrentRoom' = _LoadCurrentRoom(db, fCurrentRoom)
    /\ committed' = NoCommit
    /\ Returned("Open", B_OK)
    /\ UNCHANGED <<db, fileExists, sinceReset, layout>>

(* The direction buttons; a button is enabled when the room held has an    *)
(* exit that way                                                           *)
MSG_MOVE ==
    \E dd \in Directions :
      /\ fCurrentRoom.exits[dd] # NULL
      /\ fDatabase => db.game_state.moves_count < MaxMoves
      /\ LET r == MoveToRoom(db, foreign_keys, fCurrentRoom.exits[dd])
         IN Handler("MoveToRoom", r.db, r.status = B_OK, {})

MSG_TAKE_ITEM ==
    \E itemId \in ItemArgs :
      /\ fDatabase => itemId \in GetItemsInRoom(db, fCurrentRoom.id)
      /\ LET r == MoveItemToInventory(db, itemId)
         IN Handler("MoveItemToInventory", r.db, r.status = B_OK, {})

MSG_DROP_ITEM ==
    \E itemId \in ItemArgs :
      /\ fDatabase => itemId \in GetInventoryItems(db)
      /\ LET r == MoveItemToRoom(db, foreign_keys, itemId, fCurrentRoom.id)
         IN Handler("MoveItemToRoom", r.db, r.status = B_OK, {})

UnlockedBy(d, u, held) ==
    IF /\ u.success
       /\ d.item_actions[u.executed[1]].action_type = "unlock_exit"
       /\ IsExitLocked(d, held.id,
                       d.item_actions[u.executed[1]].target_direction)
    THEN {<<held.id, d.item_actions[u.executed[1]].target_direction>>}
    ELSE {}

MSG_USE_ITEM ==
    \E itemId \in ItemArgs :
      /\ fDatabase => itemId \in GetInventoryItems(db)
      /\ LET u == _UseItem(db, foreign_keys, itemId, fCurrentRoom)
         IN Handler("UseItem", u.db, u.success,
                    UnlockedBy(db, u, fCurrentRoom))

NextPuzzle ==
    \/ _InitializeDatabase
    \/ B_REFS_RECEIVED
    \/ MSG_MOVE
    \/ MSG_TAKE_ITEM
    \/ MSG_DROP_ITEM
    \/ MSG_USE_ITEM
    \/ DoClearGameState({NoFault})

SpecPuzzle == InitPuzzle /\ [][NextPuzzle]_vars

-----------------------------------------------------------------------------
(* Claims checked under SpecPuzzle *)

PlacedIn(d, i, where) ==
    i \in DOMAIN d.item_locations /\ d.item_locations[i] = where

(* C12: GetItemsInRoom(r) returns exactly the items whose live placement  *)
(* is room r, that are not in the Removed-Item log, and that have the     *)
(* visibility flag set or are in the Revealed-Item log.                   *)
C12_ItemsInRoom ==
    fDatabase =>
      \A r \in RoomArgs, i \in ItemArgs :
        i \in GetItemsInRoom(db, r)
          <=> /\ i \in db.items
              /\ PlacedIn(db, i, r)
              /\ i \notin db.removed_items
              /\ (db.is_visible[i] \/ i \in db.revealed_items)

C12_Witness ==
    /\ fDatabase
    /\ Gem \in GetItemsInRoom(db, 1)
    /\ ~db.is_visible[Gem]
    /\ \E i \in db.removed_items, r \in db.rooms :
         PlacedIn(db, i, r) /\ i \notin GetItemsInRoom(db, r)

ListedIn(d, i) == {r \in RoomArgs : i \in GetItemsInRoom(d, r)}

Listed(d) == {i \in ItemArgs : ListedIn(d, i) # {}}

(* C13: an item listed in a room is, after a successful                   *)
(* MoveItemToInventory, in the inventory and listed in no room; after a   *)
(* successful MoveItemToRoom(i, R2), made at once or after taking it, it  *)
(* is listed in R2 only and not in the inventory.  No item is ever both   *)
(* in the inventory and listed in a room, or listed in two rooms.         *)
C13_TakeDrop ==
    fDatabase =>
      /\ \A i \in Listed(db) :
           LET t == MoveItemToInventory(db, i)
           IN t.status = B_OK
                => (i \in GetInventoryItems(t.db) /\ ListedIn(t.db, i) = {})
      /\ \A i \in Listed(db), r2 \in RoomArgs, taken \in BOOLEAN :
           LET from == IF taken THEN MoveItemToInventory(db, i).db ELSE db
               p == MoveItemToRoom(from, foreign_keys, i, r2)
           IN p.status = B_OK
                => (ListedIn(p.db, i) = {r2}
                      /\ i \notin GetInventoryItems(p.db))
      /\ \A i \in ItemArgs :
           /\ Cardinality(ListedIn(db, i)) <= 1
           /\ i \in GetInventoryItems(db) => ListedIn(db, i) = {}

C13_Witness ==
    /\ fDatabase
    /\ 2 \in GetInventoryItems(db)
    /\ ListedIn(db, 1) # {}
    /\ last = [op |-> "other", status |-> B_OK]

NotReturned(d, i) == ListedIn(d, i) = {} /\ i \notin GetInventoryItems(d)

(* C14: an item put in the Removed-Item log, by RemoveItemFromRoom or by  *)
(* consumption, is returned by neither GetItemsInRoom nor                 *)
(* GetInventoryItems until ClearGameState is called, whatever moves and   *)
(* reveals follow; RemoveItemFromRoom leaves its placement row unchanged. *)
C14_RemovedStaysOut ==
    fDatabase =>
      /\ \A i \in sinceReset.removed :
           /\ NotReturned(db, i)
           /\ NotReturned(MoveItemToInventory(db, i).db, i)
           /\ \A r \in RoomArgs :
                NotReturned(MoveItemToRoom(db, foreign_keys, i, r).db, i)
           /\ \A visible \in BOOLEAN :
                NotReturned(
                  SetItemVisibility(db, foreign_keys, i, visible).db, i)
      /\ \A i \in ItemArgs :
           RemoveItemFromRoom(db, foreign_keys, i).db.item_locations
             = db.item_locations

C14_Witness ==
    /\ fDatabase
    /\ \E i \in sinceReset.removed :
         /\ PlacedIn(db, i, NULL)
         /\ \E a \in db.completed_actions : db.item_actions[a].item_id = i
    /\ \E i \in sinceReset.removed, r \in db.rooms : PlacedIn(db, i, r)

(* The actions use-item has to choose from: those of the item whose room *)
(* is the current room of the game state, or no room                     *)
Matching(d, itemId) ==
    {a \in DOMAIN d.item_actions :
        /\ d.item_actions[a].item_id = itemId
        /\ d.item_actions[a].room_id
              \in {d.game_state.current_room_id, NULL}}

Used(itemId) == _UseItem(db, foreign_keys, itemId, fCurrentRoom)

(* C15: one use-item invocation executes exactly the first action, in the *)
(* order of GetItemActions(item, current room), that is not in the        *)
(* Completed-Action log, and no other: at most one action is executed and *)
(* at most one joins the log, even when several uncompleted ones match.   *)
C15_FirstUncompletedOnly ==
    fDatabase =>
      \A itemId \in ItemArgs :
        LET actions == GetItemActions(db, itemId,
                                      db.game_state.current_room_id)
            open == {j \in 1..Len(actions) :
                       actions[j] \notin db.completed_actions}
            u == Used(itemId)
        IN /\ {actions[j] : j \in 1..Len(actions)} = Matching(db, itemId)
           /\ open = {} => u.executed = <<>>
           /\ open # {} =>
                /\ \E j \in open : /\ \A k \in open : j <= k
                                    /\ u.executed = <<actions[j]>>
                /\ u.db.completed_actions \ db.completed_actions
                      \subseteq {u.executed[1]}

C15_Witness ==
    /\ fDatabase
    /\ db.completed_actions = {1}
    /\ Cardinality(Matching(db, 1)) = 2
    /\ Used(1).executed = <<2>>
    /\ Used(1).success

(* C16: an action in the Completed-Action log is never executed again by *)
(* use-item, and when every matching action is completed use-item        *)
(* changes nothing in the store and reports no success.                  *)
C16_AtMostOnce ==
    fDatabase =>
      \A itemId \in ItemArgs :
        LET u == Used(itemId)
        IN /\ \A j \in 1..Len(u.executed) :
                u.executed[j] \notin db.completed_actions
           /\ Matching(db, itemId) \subseteq db.completed_actions =>
                u.db = db /\ ~u.success

C16_Witness ==
    /\ fDatabase
    /\ Matching(db, 1) # {}
    /\ Matching(db, 1) \subseteq db.completed_actions
    /\ 1 \in GetInventoryItems(db)
    /\ DOMAIN db.item_actions \ Matching(db, 1) # {}

(* The row of the action one use-item invocation executed *)
Row(u) == db.item_actions[u.executed[1]]

(* C17 as stated: on success the action id joins the Completed-Action    *)
(* log and the acting item joins the Removed-Item log iff consumesItem   *)
(* is set; without success neither log changes.                          *)
C17_Original ==
    fDatabase =>
      \A itemId \in ItemArgs :
        LET u == Used(itemId)
        IN IF u.success
           THEN /\ u.executed[1] \in u.db.completed_actions
                /\ Row(u).consumes_item => itemId \in u.db.removed_items
                /\ ~Row(u).consumes_item =>
                     (itemId \in u.db.removed_items
                        <=> itemId \in db.removed_items)
           ELSE /\ u.db.completed_actions = db.completed_actions
                /\ u.db.removed_items = db.removed_items

(* C17: on success the Completed-Action log gains exactly the action id, *)
(* and the Removed-Item log gains exactly the acting item when           *)
(* consumesItem is set plus the target of a remove-item action (which    *)
(* may be the acting item itself); without success neither log changes.  *)
C17_CompletionAndConsumption ==
    fDatabase =>
      \A itemId \in ItemArgs :
        LET u == Used(itemId)
        IN IF u.success
           THEN /\ u.db.completed_actions =
                     db.completed_actions \cup {u.executed[1]}
                /\ u.db.removed_items =
                     db.removed_items
                       \cup (IF Row(u).consumes_item THEN {itemId} ELSE {})
                       \cup (IF Row(u).action_type = "remove_item"
                             THEN {Row(u).target_item_id} ELSE {})
           ELSE /\ u.db.completed_actions = db.completed_actions
                /\ u.db.removed_items = db.removed_items

C17_Witness ==
    /\ fDatabase
    /\ \E a \in db.completed_actions :
         /\ db.item_actions[a].consumes_item
         /\ db.item_actions[a].item_id \in db.removed_items
    /\ \E a \in db.completed_actions :
         /\ ~db.item_actions[a].consumes_item
         /\ db.item_actions[a].action_type = "reveal_item"

(* What consumption adds to the Removed-Item log *)
Consumed(u) == IF Row(u).consumes_item THEN {Row(u).item_id} ELSE {}

Here == db.game_state.current_room_id

(* C18: a successful reveal-item action puts its target in the           *)
(* Revealed-Item log (a hidden target placed in the current room is then *)
(* returned by GetItemsInRoom), a remove-item action puts its target in  *)
(* the Removed-Item log, an unlock-exit action puts (current room,       *)
(* target direction) in the Unlocked-Exit log; each kind changes no      *)
(* event log but its own, apart from completion and consumption.         *)
C18_Original ==
    fDatabase =>
      \A itemId \in ItemArgs :
        LET u == Used(itemId)
        IN u.success =>
             CASE Row(u).action_type = "reveal_item" ->
                    /\ u.db.revealed_items =
                         db.revealed_items \cup {Row(u).target_item_id}
                    /\ u.db.removed_items = db.removed_items \cup Consumed(u)
                    /\ u.db.unlocked_exits = db.unlocked_exits
                    /\ (/\ PlacedIn(db, Row(u).target_item_id, Here)
                        /\ Row(u).target_item_id \in db.items
                        /\ Row(u).target_item_id \notin u.db.removed_items)
                       => Row(u).target_item_id
                            \in GetItemsInRoom(u.db, Here)
               [] Row(u).action_type = "remove_item" ->
                    /\ u.db.removed_items =
                         db.removed_items \cup {Row(u).target_item_id}
                           \cup Consumed(u)
                    /\ u.db.revealed_items = db.revealed_items
                    /\ u.db.unlocked_exits = db.unlocked_exits
               [] Row(u).action_type = "unlock_exit" ->
                    /\ u.db.unlocked_exits =
                         db.unlocked_exits
                           \cup {<<Here, Row(u).target_direction>>}
                    /\ u.db.removed_items = db.removed_items \cup Consumed(u)
                    /\ u.db.revealed_items = db.revealed_items

UnknownKind(d, a) == d.item_actions[a].action_type \notin ActionKinds

(* C19: executing an action whose kind is none of reveal_item,           *)
(* remove_item, unlock_exit reports failure and leaves the whole store   *)
(* as it was: no log, placement or game-state field changes and the      *)
(* acting item is not consumed, whatever its consumesItem flag.          *)
C19_UnknownKindInert ==
    fDatabase =>
      /\ \A a \in DOMAIN db.item_actions :
           UnknownKind(db, a) =>
             LET e == _ExecuteItemAction(db, foreign_keys, a, fCurrentRoom)
             IN ~e.success /\ e.db = db
      /\ \A itemId \in ItemArgs :
           LET u == Used(itemId)
           IN (u.executed # <<>> /\ UnknownKind(db, u.executed[1])) =>
                ~u.success /\ u.db = db

C19_Witness ==
    /\ fDatabase
    /\ 1 \in GetInventoryItems(db)
    /\ Used(1).executed # <<>>
    /\ UnknownKind(db, Used(1).executed[1])
    /\ Row(Used(1)).consumes_item
    /\ Row(Used(1)).target_item_id = Gem
    /\ db.completed_actions # {}

(* What the author made: rooms with their exits and coordinates, items   *)
(* with their base visibility, combinations, item actions, exit          *)
(* conditions and the snapshot of initial placements                     *)
Authored(d) ==
    [rooms |-> d.rooms, exits |-> d.exits, graph |-> d.graph,
     items |-> d.items, is_visible |-> d.is_visible,
     item_combinations |-> d.item_combinations,
     item_actions |-> d.item_actions,
     exit_conditions |-> d.exit_conditions,
     item_locations_initial |-> d.item_locations_initial,
     seq_rooms |-> d.seq_rooms, seq_items |-> d.seq_items,
     seq_actions |-> d.seq_actions]

(* C36: play operations never change authored data: MoveToRoom,         *)
(* MoveItemToInventory, MoveItemToRoom, MarkActionCompleted,             *)
(* SetItemVisibility, RemoveItemFromRoom, UnlockExit, use-item and       *)
(* ClearGameState, whatever they return, leave rooms, items, item        *)
(* actions, exit conditions and the snapshot of initial placements as    *)
(* they were.                                                            *)
C36_PlayKeepsAuthored ==
    fDatabase =>
      LET fk == foreign_keys
          same(e) == Authored(e) = Authored(db)
      IN /\ \A roomId \in RoomArgs : same(MoveToRoom(db, fk, roomId).db)
         /\ \A itemId \in ItemArgs :
              /\ same(MoveItemToInventory(db, itemId).db)
              /\ same(RemoveItemFromRoom(db, fk, itemId).db)
              /\ same(Used(itemId).db)
              /\ \A visible \in BOOLEAN :
                   same(SetItemVisibility(db, fk, itemId, visible).db)
              /\ \A roomId \in RoomArgs :
                   same(MoveItemToRoom(db, fk, itemId, roomId).db)
         /\ \A actionId \in ActionArgs \cup DOMAIN db.item_actions :
              same(MarkActionCompleted(db, fk, actionId).db)
         /\ \A roomId \in RoomArgs, direction \in Directions :
              same(UnlockExit(db, fk, roomId, direction).db)
         /\ \A failAt \in ClearFaults :
              same(ClearGameState(db, fk, failAt).db)

(* A puzzle world after it was played: an action is completed, an item  *)
(* lies elsewhere than in the snapshot, and what was authored is what   *)
(* the world started with                                                *)
C36_Witness ==
    /\ fDatabase
    /\ db.completed_actions # {}
    /\ db.item_locations # db.item_locations_initial
    /\ db.removed_items # {}
    /\ \E w \in PuzzleWorlds : Authored(db) = Authored(w) /\ db # w

(* C38: a move of the player from the room held, R, through a direction  *)
(* button d changes the current room only when IsExitLocked(R, d) is     *)
(* false: an exit with a condition that was not unlocked lets nobody     *)
(* through.                                                              *)
C38_Original ==
    [][(/\ fDatabase /\ fDatabase'
        /\ db'.game_state.moves_count = db.game_state.moves_count + 1
        /\ db'.game_state.current_room_id # db.game_state.current_room_id)
       => \E dd \in Directions :
            /\ fCurrentRoom.exits[dd] = db'.game_state.current_room_id
            /\ ~IsExitLocked(db, fCurrentRoom.id, dd)]_vars

-----------------------------------------------------------------------------
(* SpecLayout: the editor lays out the map of a store.  The store file,    *)
(* when there is one, holds the starter content; or three rooms placed by  *)
(* hand with at most one                                                   *)
(* exit each, or with two exits out of room 1 only; or a crossing of four  *)
(* rooms; or a corridor of rooms running west whose far end leads east     *)
(* into one more room.                                                     *)
(* AutoLayoutRooms runs one pass of its loop at a time; nothing else       *)
(* happens while it runs.                                                  *)

LayoutRooms == {1, 2, 3}

OneExit ==
    {NoExits} \cup {[NoExits EXCEPT ![dd] = r] :
                      dd \in Directions, r \in LayoutRooms}

TwoExits ==
    {[e EXCEPT ![dd] = r] :
       e \in OneExit, dd \in Directions, r \in LayoutRooms}

(* Where the author left room r on the map *)
PlacedByHand(r) == <<r, r>>

MapWorld(rooms, exits) ==
    [StarterContent EXCEPT
       !.rooms = rooms,
       !.exits = exits,
       !.graph = [r \in rooms |-> PlacedByHand(r)],
       !.seq_rooms = Cardinality(rooms)]

Corridor ==
    MapWorld(1..(ProbeLimit + 2),
             [r \in 1..(ProbeLimit + 2) |->
                IF r <= ProbeLimit THEN [NoExits EXCEPT !["west"] = r + 1]
                ELSE IF r = ProbeLimit + 1
                THEN [NoExits EXCEPT !["east"] = r + 1]
                ELSE NoExits])

(* Room 1 leads east and south; the room to the south leads north into *)
(* a fourth room                                                        *)
Crossing ==
    MapWorld(1..4,
             (1 :> [NoExits EXCEPT !["east"] = 2, !["south"] = 3]) @@
             (2 :> NoExits) @@
             (3 :> [NoExits EXCEPT !["north"] = 4]) @@
             (4 :> NoExits))

LayoutWorlds ==
    {MapWorld(LayoutRooms, exits) : exits \in [LayoutRooms -> OneExit]}
      \cup {MapWorld(LayoutRooms, [r \in LayoutRooms |->
                                    IF r = 1 THEN e ELSE NoExits]) :
              e \in TwoExits}
      \cup {StarterContent, Corridor, Crossing}

(* The maps of three rooms with at most one exit each, north or south:  *)
(* chains, cycles, rooms leading to themselves, one-way links           *)
LoopWorlds ==
    {MapWorld(LayoutRooms, exits) :
       exits \in [LayoutRooms ->
                   {e \in OneExit : e["east"] = NULL /\ e["west"] = NULL}]}
      \cup {StarterContent, Corridor, Crossing}

InitOn(worlds) ==
    /\ fileExists \in BOOLEAN
    /\ db \in IF fileExists THEN worlds ELSE {EmptyDb}
    /\ fDatabase = FALSE
    /\ fDatabasePath = ""
    /\ foreign_keys = FALSE
    /\ last = [op |-> "other", status |-> B_OK]
    /\ committed = NoCommit
    /\ fCurrentRoom = NoRoom
    /\ sinceReset = NoneSince
    /\ layout = NoLayout

InitLayout == InitOn(LayoutWorlds)

Traversal ==
    [db |-> db, toProcess |-> layout.toProcess, visited |-> layout.visited,
     positions |-> layout.positions, processed |-> layout.processed]

Running(t, runs, startRoomId, before) ==
    [running |-> TRUE, runs |-> runs, startRoomId |-> startRoomId,
     before |-> before, toProcess |-> t.toProcess, visited |-> t.visited,
     positions |-> t.positions, processed |-> t.processed]

LayoutUnchanged ==
    UNCHANGED <<fDatabase, fDatabasePath, foreign_keys, fileExists, last,
                committed, fCurrentRoom, sinceReset>>

(* AutoLayoutRooms is called: B_NO_INIT at once without a store, else the *)
(* statements before its loop                                             *)
AutoLayoutCalled(S) ==
    \E startRoomId \in S :
      /\ ~layout.running
      /\ layout.runs < MaxLayoutRuns
      /\ IF fDatabase
         THEN LET t == BeginLayout(db, startRoomId)
              IN /\ db' = t.db
                 /\ layout' = Running(t, layout.runs + 1, startRoomId, db)
                 /\ LayoutUnchanged
         ELSE /\ Author("AutoLayoutRooms", Result(db, B_NO_INIT))
              /\ UNCHANGED layout

AutoLayoutLoop ==
    /\ layout.running
    /\ layout.toProcess # <<>>
    /\ LET t == ProcessRoom(Traversal)
       IN /\ db' = t.db
          /\ layout' = Running(t, layout.runs, layout.startRoomId,
                               layout.before)
    /\ LayoutUnchanged

AutoLayoutReturns ==
    /\ layout.running
    /\ layout.toProcess = <<>>
    /\ layout' = [layout EXCEPT !.running = FALSE]
    /\ Returned("AutoLayoutRooms", B_OK)
    /\ committed' = NoCommit
    /\ UNCHANGED <<db, fDatabase, fDatabasePath, foreign_keys, fileExists,
                   fCurrentRoom, sinceReset>>

NextLayout ==
    \/ ~layout.running /\ DoOpen
    \/ AutoLayoutCalled(LayoutRooms)
    \/ AutoLayoutLoop
    \/ AutoLayoutReturns

SpecLayout == InitLayout /\ [][NextLayout]_vars

(* A call that has started runs on: the loop and the return are not      *)
(* interrupted                                                           *)
SpecLayoutFair ==
    /\ InitOn(LoopWorlds)
    /\ [][NextLayout]_vars
    /\ WF_vars(AutoLayoutLoop)
    /\ WF_vars(AutoLayoutReturns)

-----------------------------------------------------------------------------
(* Claims checked under SpecLayout *)

LaidOut ==
    /\ ~layout.running
    /\ last = [op |-> "AutoLayoutRooms", status |-> B_OK]

(* C21: after AutoLayoutRooms completes, no two distinct rooms visited by *)
(* the traversal have been given the same (x, y) coordinate.             *)
C21_Original ==
    LaidOut =>
      \A a, b \in layout.visited \cap db.rooms :
        a # b => /\ layout.positions[a] # layout.positions[b]
                 /\ db.graph[a] # db.graph[b]

(* The ids the traversal can reach from startRoomId through the four    *)
(* directional references of the rooms of d                             *)
RECURSIVE ReachableFrom(_, _)
ReachableFrom(d, seen) ==
    LET next == seen \cup {d.exits[r][dd] :
                             r \in seen \cap d.rooms, dd \in Directions}
        more == {r \in next : r > 0}
    IN IF more \subseteq seen THEN seen ELSE ReachableFrom(d, seen \cup more)

Reachable(d, startRoomId) == ReachableFrom(d, {startRoomId})

NoRepeat(q) == \A i, j \in 1..Len(q) : i # j => q[i] # q[j]

(* C22: AutoLayoutRooms terminates on every adjacency graph, cycles,    *)
(* self-references and one-way links included: no room is put in the    *)
(* queue or taken from it twice, there is at most one dequeue per       *)
(* reachable room, and a call that has started returns.                 *)
C22_Terminates ==
    /\ [](/\ NoRepeat(layout.processed \o layout.toProcess)
          /\ layout.runs > 0 =>
               Len(layout.processed)
                 <= Cardinality(Reachable(layout.before, layout.startRoomId)))
    /\ (layout.running ~> LaidOut)

C22_Witness ==
    /\ LaidOut
    /\ Len(layout.processed) = 3
    /\ \E dd \in Directions :
         db.exits[layout.processed[3]][dd] = layout.startRoomId
    /\ \E dd \in Directions :
         db.exits[layout.processed[2]][dd] = layout.processed[3]

(* The cell next to cell in the given direction: north is up *)
TargetCell(cell, direction) ==
    CASE direction = "north" -> <<cell[1], cell[2] - 1>>
      [] direction = "south" -> <<cell[1], cell[2] + 1>>
      [] direction = "east" -> <<cell[1] + 1, cell[2]>>
      [] direction = "west" -> <<cell[1] - 1, cell[2]>>

(* The direction through which the room being processed first leads to c *)
FirstToward(exits, c) ==
    DirColumns[CHOOSE i \in 1..4 :
                 /\ exits[DirColumns[i]] = c
                 /\ \A j \in 1..(i - 1) : exits[DirColumns[j]] # c]

PersistedAt(d, roomId, cell) ==
    roomId \in d.rooms => d.graph[roomId] = <<cell[1] * 100, cell[2] * 100>>

(* C23: the start room is persisted at (0,0); a room first reached from  *)
(* a placed room at cell (x, y) through north/south/east/west whose      *)
(* target cell (x, y-1)/(x, y+1)/(x+1, y)/(x-1, y) is free is persisted  *)
(* at that cell times 100; with A south B and B north A, layout from A   *)
(* gives A = (0,0) and B = (0,100).                                      *)
C23_PlacementRule ==
    /\ [][/\ (~layout.running /\ layout'.running) =>
               /\ layout'.positions[layout'.startRoomId] = <<0, 0>>
               /\ PersistedAt(db', layout'.startRoomId, <<0, 0>>)
          /\ (layout.running /\ layout'.running) =>
               \A c \in layout'.visited \ layout.visited :
                 LET currentId == Head(layout.toProcess)
                     target == TargetCell(layout.positions[currentId],
                                 FirstToward(db.exits[currentId], c))
                 IN (\A r \in layout'.visited \ {c} :
                        layout'.positions[r] # target)
                      => /\ layout'.positions[c] = target
                         /\ PersistedAt(db', c, target)]_vars
    /\ [](LaidOut =>
            \A A, B \in layout.before.rooms :
              (/\ A # B
               /\ layout.startRoomId = A
               /\ layout.before.exits[A] = [NoExits EXCEPT !["south"] = B]
               /\ layout.before.exits[B] = [NoExits EXCEPT !["north"] = A])
              => db.graph[A] = <<0, 0>> /\ db.graph[B] = <<0, 100>>)

C23_Witness ==
    /\ LaidOut
    /\ layout.startRoomId = 2
    /\ layout.before.exits[2] = [NoExits EXCEPT !["south"] = 3]
    /\ layout.before.exits[3] = [NoExits EXCEPT !["north"] = 2]
    /\ layout.before.graph[3] = PlacedByHand(3)
    /\ db.graph[2] = <<0, 0>>
    /\ db.graph[3] = <<0, 100>>

(* Other coordinates the rooms of d may have had before a layout *)
PriorGraphs(d) ==
    {[r \in d.rooms |-> <<0, 0>>],
     [r \in d.rooms |-> <<-100 * r, 300>>]}

(* C24: for a fixed adjacency graph and start room, AutoLayoutRooms      *)
(* persists the same coordinate for every reachable room whatever the    *)
(* coordinates were before, so a second run changes nothing.             *)
C24_Deterministic ==
    LaidOut =>
      /\ db = AutoLayoutRooms(layout.before, layout.startRoomId).db
      /\ AutoLayoutRooms(db, layout.startRoomId).db = db
      /\ \A prior \in PriorGraphs(layout.before) :
           LET again == AutoLayoutRooms([layout.before EXCEPT !.graph = prior],
                                        layout.startRoomId)
           IN \A r \in Reachable(layout.before, layout.startRoomId)
                         \cap db.rooms :
                again.db.graph[r] = db.graph[r]

C24_Witness ==
    /\ LaidOut
    /\ layout.visited = {1, 2}
    /\ 3 \in db.rooms
    /\ db.graph[1] # layout.before.graph[1]
    /\ db.graph[2] # layout.before.graph[2]
    /\ \E prior \in PriorGraphs(layout.before) : prior[2] # db.graph[2]

(* C25: AutoLayoutRooms leaves the coordinates of every room that is not *)
(* reachable from the start room as they were, and changes nothing but   *)
(* room coordinates: adjacency, placements, logs and game state stay.    *)
C25_LayoutFrame ==
    (layout.running \/ LaidOut) =>
      /\ db = [layout.before EXCEPT !.graph = db.graph]
      /\ DOMAIN db.graph = DOMAIN layout.before.graph
      /\ \A r \in db.rooms \ Reachable(layout.before, layout.startRoomId) :
           db.graph[r] = layout.before.graph[r]

C25_Witness ==
    /\ LaidOut
    /\ layout.startRoomId = 2
    /\ Reachable(layout.before, 2) = {2, 3}
    /\ db.exits[1]["south"] = 2
    /\ db.graph[1] = PlacedByHand(1)
    /\ db.graph[2] = <<0, 0>>
    /\ db.graph[3] # PlacedByHand(3)

(* C35: resolving a collision moves a room along x only: a room first    *)
(* reached from the room at cell (x, y) through direction d is placed,   *)
(* and persisted, in row y + dy(d), for north and south as for east and  *)
(* west, and in a column x + dx(d) + k with k >= 0.                      *)
C35_OnlyXPerturbed ==
    [][(layout.running /\ layout'.running) =>
         \A c \in layout'.visited \ layout.visited :
           LET currentId == Head(layout.toProcess)
               target == TargetCell(layout.positions[currentId],
                           FirstToward(db.exits[currentId], c))
               cell == layout'.positions[c]
           IN /\ cell[2] = target[2]
              /\ cell[1] >= target[1]
              /\ PersistedAt(db', c, cell)]_vars

(* Room 4, north of room 3 at (0, 1), found (0, 0) and (1, 0) taken and *)
(* went to (2, 0)                                                        *)
C35_Witness ==
    /\ LaidOut
    /\ layout.before = Crossing
    /\ layout.startRoomId = 1
    /\ db.graph[3] = <<0, 100>>
    /\ db.graph[4] = <<200, 0>>

-----------------------------------------------------------------------------
(* SpecMap: the author edits the map of the starter world: creates rooms, *)
(* connects and disconnects them eastwards, also with a direction that    *)
(* is none of the four, and deletes them.                                 *)

MapDirections == {"east", "up"}

NextMap ==
    \/ DoCreateNew
    \/ DoOpen
    \/ DoCreateRoom
    \/ DoConnectRooms(RoomArgs, MapDirections, RoomArgs)
    \/ DoDisconnectRoom(RoomArgs, MapDirections)
    \/ DoDeleteRoom(RoomArgs, {NoFault})

SpecMap == Init /\ [][NextMap]_vars

-----------------------------------------------------------------------------
(* Claims checked under SpecMap *)

(* C26: in every reachable state each of the four directional references *)
(* of every room is unset or the id of an existing room: no sequence of  *)
(* CreateRoom, ConnectRooms, DisconnectRoom and DeleteRoom leaves a      *)
(* reference to a room that does not exist.  (A room leading to itself   *)
(* is let through here.)                                                 *)
C26_Original ==
    \A r \in db.rooms, dd \in Directions :
      \/ db.exits[r][dd] = NULL
      \/ db.exits[r][dd] \in db.rooms

(* The stores d and e differ at most in the reference of room roomId in *)
(* the given direction                                                   *)
OnlyReference(d, e, roomId, direction) ==
    /\ e = [d EXCEPT !.exits = e.exits]
    /\ DOMAIN e.exits = DOMAIN d.exits
    /\ \A q \in DOMAIN d.exits, dd \in Directions :
         (q # roomId \/ dd # direction) => e.exits[q][dd] = d.exits[q][dd]

(* C27: on an open store ConnectRooms and DisconnectRoom with a direction *)
(* that is none of north, south, east and west return B_BAD_VALUE and     *)
(* change nothing; with one of the four they change at most that one      *)
(* reference of the named room (set to the target, or cleared, when they  *)
(* return B_OK for a room there is), and no other reference of that room  *)
(* or of any other room, the target's opposite one included.              *)
C27_OneReference ==
    fDatabase =>
      \A roomId \in RoomArgs, direction \in Directions \cup MapDirections,
         targetRoomId \in RoomArgs :
        LET c == ConnectRooms(db, foreign_keys, roomId, direction,
                              targetRoomId)
            x == DisconnectRoom(db, roomId, direction)
        IN  IF direction \notin Directions
            THEN /\ c = Result(db, B_BAD_VALUE)
                 /\ x = Result(db, B_BAD_VALUE)
            ELSE /\ c.status # B_BAD_VALUE
                 /\ x.status # B_BAD_VALUE
                 /\ OnlyReference(db, c.db, roomId, direction)
                 /\ OnlyReference(db, x.db, roomId, direction)
                 /\ (c.status = B_OK /\ roomId \in db.rooms)
                      => c.db.exits[roomId][direction] = targetRoomId
                 /\ (x.status = B_OK /\ roomId \in db.rooms)
                      => x.db.exits[roomId][direction] = NULL

(* Room 1 was connected eastwards to room 2, which got no way back west *)
C27_Witness ==
    /\ fDatabase
    /\ {1, 2} \subseteq db.rooms
    /\ db.exits[1]["east"] = 2
    /\ db.exits[2]["west"] = NULL
    /\ ConnectRooms(db, foreign_keys, 2, "up", 1) = Result(db, B_BAD_VALUE)

-----------------------------------------------------------------------------
(* SpecSession: stores are created, opened and closed, with the failures   *)
(* sqlite3_open, _CreateSchema, _CreateStarterContent, VerifySchema and    *)
(* sqlite3_close can report, and queries, play and authoring operations    *)
(* are called whether a store is open or not.  Here last records every     *)
(* session call and every query with what it returned.                     *)

(* Where CreateNew or Open fails *)

AtOpen == 1

AtSchema == 2

AtFirstInsert == 3

AtLastUpdate == 4

AtVerifySchema == 5

CreateNewFaults == {NoFault, AtOpen, AtSchema, AtFirstInsert, AtLastUpdate}

OpenFaults == {NoFault, AtOpen, AtVerifySchema}

(* What sqlite3_close and sqlite3_close_v2 report *)
CloseCodes == {"SQLITE_OK", "SQLITE_BUSY then SQLITE_OK", "SQLITE_BUSY twice"}

Session ==
    [db |-> db, fDatabase |-> fDatabase, fDatabasePath |-> fDatabasePath,
     foreign_keys |-> foreign_keys, fileExists |-> fileExists]

CloseSessionWhenNotBusy(s, rc) ==
    IF s.fDatabase /\ rc # "SQLITE_BUSY twice"
    THEN [s EXCEPT !.fDatabase = FALSE, !.foreign_keys = FALSE,
                   !.fDatabasePath = ""]
    ELSE s

CloseSession(s, rc) ==
    [(IF s.fDatabase
      THEN [s EXCEPT !.fDatabase = FALSE, !.foreign_keys = FALSE]
      ELSE s) EXCEPT !.fDatabasePath = ""]

(* sqlite3_open succeeded: the handle and the path are assigned *)
Assigned(s, path, fk) ==
    [s EXCEPT !.fDatabase = TRUE, !.fDatabasePath = path,
              !.foreign_keys = fk, !.fileExists = TRUE]

SessionCreateNewLeftOpen(s, path, rc, fault) ==
    IF path = "" THEN [session |-> s, status |-> B_BAD_VALUE]
    ELSE LET removed == [CloseSession(s, rc) EXCEPT !.fileExists = FALSE,
                                                    !.db = EmptyDb]
         IN IF fault = AtOpen
            THEN [session |-> removed, status |-> B_ERROR]
            ELSE IF fault = AtSchema
            THEN [session |-> CloseSession(Assigned(removed, path, TRUE), rc),
                  status |-> B_ERROR]
            ELSE IF fault \in {AtFirstInsert, AtLastUpdate}
            THEN [session |-> [Assigned(removed, path, TRUE) EXCEPT !.db =
                                 IF fault = AtLastUpdate THEN StarterContent
                                 ELSE EmptyDb],
                  status |-> B_ERROR]
            ELSE [session |-> [Assigned(removed, path, TRUE)
                                 EXCEPT !.db = StarterContent],
                  status |-> B_OK]

(* CreateNew: the file that was there is removed; sqlite3_exec stops at   *)
(* the statement that fails and keeps what the ones before it wrote, so   *)
(* a failure at the first INSERT of the starter content leaves a store    *)
(* with no rows and one at its last UPDATE, of game_metadata, a store     *)
(* with every row of the starter content                                  *)
SessionCreateNew(s, path, rc, fault) ==
    IF path = "" THEN [session |-> s, status |-> B_BAD_VALUE]
    ELSE LET removed == [CloseSession(s, rc) EXCEPT !.fileExists = FALSE,
                                                    !.db = EmptyDb]
         IN IF fault = AtOpen
            THEN [session |-> removed, status |-> B_ERROR]
            ELSE IF fault = AtSchema
            THEN [session |-> CloseSession(Assigned(removed, path, TRUE), rc),
                  status |-> B_ERROR]
            ELSE IF fault \in {AtFirstInsert, AtLastUpdate}
            THEN [session |->
                    CloseSession([Assigned(removed, path, TRUE) EXCEPT !.db =
                                    IF fault = AtLastUpdate
                                    THEN StarterContent ELSE EmptyDb], rc),
                  status |-> B_ERROR]
            ELSE [session |-> [Assigned(removed, path, TRUE)
                                 EXCEPT !.db = StarterContent],
                  status |-> B_OK]

(* A path that names no file *)
MissingPath == "missing.db"

OpenPaths == Paths \cup {MissingPath}

(* BEntry(path).Exists() *)
Exists(s, path) == path = DbPath /\ s.fileExists

SessionOpenClosesFirst(s, path, rc, fault) ==
    LET closed == CloseSession(s, rc)
    IN IF path = "" THEN [session |-> closed, status |-> B_BAD_VALUE]
       ELSE IF ~Exists(s, path)
       THEN [session |-> closed, status |-> B_ENTRY_NOT_FOUND]
       ELSE IF fault = AtOpen
       THEN [session |-> closed, status |-> B_ERROR]
       ELSE IF fault = AtVerifySchema
       THEN [session |-> CloseSession(Assigned(closed, path, FALSE), rc),
             status |-> B_ERROR]
       ELSE [session |-> Assigned(closed, path, FALSE), status |-> B_OK]

(* Open: the path and the file are checked before the store that is open  *)
(* is closed                                                              *)
SessionOpen(s, path, rc, fault) ==
    IF path = "" THEN [session |-> s, status |-> B_BAD_VALUE]
    ELSE IF ~Exists(s, path)
    THEN [session |-> s, status |-> B_ENTRY_NOT_FOUND]
    ELSE LET closed == CloseSession(s, rc)
         IN IF fault = AtOpen
            THEN [session |-> closed, status |-> B_ERROR]
            ELSE IF fault = AtVerifySchema
            THEN [session |-> CloseSession(Assigned(closed, path, FALSE), rc),
                  status |-> B_ERROR]
            ELSE [session |-> Assigned(closed, path, FALSE),
                  status |-> B_OK]

(* The status of GetRoom on an open store *)
GetRoom(d, roomId) ==
    IF roomId \in d.rooms THEN B_OK ELSE B_ENTRY_NOT_FOUND

Bool(b) == IF b THEN "true" ELSE "false"

Becomes(s) ==
    /\ db' = s.db
    /\ fDatabase' = s.fDatabase
    /\ fDatabasePath' = s.fDatabasePath
    /\ foreign_keys' = s.foreign_keys
    /\ fileExists' = s.fileExists

CreateNewWith(path, rc, fault) ==
    LET r == SessionCreateNew(Session, path, rc, fault)
    IN /\ Becomes(r.session)
       /\ last' = [op |-> "CreateNew", status |-> r.status]
       /\ committed' = IF path = "" THEN committed ELSE NoCommit
       /\ sinceReset' = IF path = "" THEN sinceReset ELSE NoneSince
       /\ UNCHANGED <<fCurrentRoom, layout>>

OpenWith(path, rc, fault) ==
    LET r == SessionOpen(Session, path, rc, fault)
    IN /\ Becomes(r.session)
       /\ last' = [op |-> "Open", status |-> r.status]
       /\ committed' = IF r.session = Session THEN committed ELSE NoCommit
       /\ UNCHANGED <<fCurrentRoom, layout, sinceReset>>

CloseWith(rc) ==
    /\ Becomes(CloseSession(Session, rc))
    /\ last' = [op |-> "Close", status |-> B_OK]
    /\ committed' = NoCommit
    /\ UNCHANGED <<fCurrentRoom, layout, sinceReset>>

(* A query: answered, on a closed store with what its guard returns *)
Query(op, closed, answer) ==
    /\ last' = [op |-> op, status |-> IF fDatabase THEN answer ELSE closed]
    /\ UNCHANGED <<db, fDatabase, fDatabasePath, foreign_keys, fileExists,
                   committed, fCurrentRoom, sinceReset, layout>>

DoCreateNewWith ==
    \E path \in Paths, rc \in CloseCodes, fault \in CreateNewFaults :
      CreateNewWith(path, rc, fault)

DoOpenWith ==
    \E path \in OpenPaths, rc \in CloseCodes, fault \in OpenFaults :
      OpenWith(path, rc, fault)

DoCloseWith == \E rc \in CloseCodes : CloseWith(rc)

DoGetRoom(R) ==
    \E roomId \in R : Query("GetRoom", B_NO_INIT, GetRoom(db, roomId))

DoIsActionCompleted(A) ==
    \E actionId \in A :
      Query("IsActionCompleted", Bool(FALSE),
            Bool(IsActionCompleted(db, actionId)))

DoIsExitLocked(R, D) ==
    \E roomId \in R, direction \in D :
      Query("IsExitLocked", Bool(FALSE),
            Bool(IsExitLocked(db, roomId, direction)))

NextSession ==
    \/ DoCreateNewWith
    \/ DoOpenWith
    \/ DoCloseWith
    \/ DoGetRoom(RoomArgs)
    \/ DoIsActionCompleted(ActionArgs)
    \/ DoIsExitLocked({StartingRoomId}, {"south"})
    \/ DoMarkActionCompleted(ActionArgs)
    \/ DoUnlockExit({StartingRoomId}, {"south"})
    \/ DoCreateRoom
    \/ DoConnectRooms({StartingRoomId}, {"north", "up"}, {2})

SpecSession == Init /\ [][NextSession]_vars

-----------------------------------------------------------------------------
(* Claims checked under SpecSession *)

SessionCalls == {"CreateNew", "Open", "Close"}

(* What the guard of an operation returns while no store is open *)
NotInitialized(l) ==
    IF l.op \in {"IsActionCompleted", "IsExitLocked"}
    THEN l.status = Bool(FALSE)
    ELSE l.status = B_NO_INIT

(* C28: while no store is open every query, play and authoring operation *)
(* returns B_NO_INIT (IsActionCompleted and IsExitLocked return false)   *)
(* and no call other than CreateNew and Open changes the handle, the     *)
(* path or the file; on an open store GetRoom never returns B_NO_INIT,   *)
(* and for an id no room has it returns B_ENTRY_NOT_FOUND, a different   *)
(* status.                                                               *)
C28_NotInitialized ==
    /\ [][~fDatabase =>
            \/ last'.op \in {"CreateNew", "Open"}
            \/ /\ Session' = Session
               /\ last'.op = "Close" \/ NotInitialized(last')]_vars
    /\ [](~fDatabase => fDatabasePath = "")
    /\ [](fDatabase =>
            /\ \A roomId \in RoomArgs \ db.rooms :
                 GetRoom(db, roomId) = B_ENTRY_NOT_FOUND
            /\ last.op = "GetRoom" =>
                 last.status \in {B_OK, B_ENTRY_NOT_FOUND})
    /\ B_ENTRY_NOT_FOUND # B_NO_INIT

(* The store was closed after it was created, and GetRoom was called *)
C28_Witness ==
    /\ ~fDatabase
    /\ fileExists
    /\ db = StarterContent
    /\ last = [op |-> "GetRoom", status |-> B_NO_INIT]

(* C29: when CreateNew fails in _CreateSchema or _CreateStarterContent,  *)
(* or Open fails in VerifySchema, no store is open afterwards (the       *)
(* handle is null and the path empty), and each call that follows, up to *)
(* the next CreateNew or Open, returns what it returns on no store.      *)
C29_FailureCloses ==
    /\ [](\A rc \in CloseCodes :
            /\ \A fault \in {AtSchema, AtFirstInsert, AtLastUpdate} :
                 LET r == SessionCreateNew(Session, DbPath, rc, fault)
                 IN /\ r.status \notin {B_OK, B_NO_INIT}
                    /\ ~r.session.fDatabase
                    /\ r.session.fDatabasePath = ""
            /\ fileExists =>
                 LET r == SessionOpen(Session, DbPath, rc, AtVerifySchema)
                 IN /\ r.status \notin {B_OK, B_NO_INIT}
                    /\ ~r.session.fDatabase
                    /\ r.session.fDatabasePath = "")
    /\ []((last.op \in {"CreateNew", "Open"} /\ last.status = B_ERROR)
            => ~fDatabase /\ fDatabasePath = "")
    /\ [][(last.op \in {"CreateNew", "Open"} /\ last.status = B_ERROR)
            => \/ last'.op \in SessionCalls
               \/ NotInitialized(last') /\ Session' = Session]_vars

(* CreateNew failed on the last statement of the starter content: every  *)
(* row is in the file and no store is open                               *)
C29_Witness ==
    /\ last = [op |-> "CreateNew", status |-> B_ERROR]
    /\ fileExists
    /\ db = StarterContent
    /\ ~fDatabase
    /\ fDatabasePath = ""

(* C30: Close on no open store changes nothing; Close, whatever          *)
(* sqlite3_close and sqlite3_close_v2 report, leaves the handle null and *)
(* the path empty, and a further Close leaves that state as it is.       *)
C30_CloseIdempotent ==
    \A rc \in CloseCodes, again \in CloseCodes :
      LET closed == CloseSession(Session, rc)
      IN /\ ~closed.fDatabase
         /\ closed.fDatabasePath = ""
         /\ CloseSession(closed, again) = closed
         /\ ~fDatabase => closed = Session
         /\ last.op = "Close" => Session = closed

(* Close was called on a store that had been created *)
C30_Witness ==
    /\ last.op = "Close"
    /\ ~fDatabase
    /\ fDatabasePath = ""
    /\ fileExists
    /\ db.rooms # {}

(* The starter world with the invariants the engine relies on *)
StarterWorld(d) ==
    /\ d.rooms = {1, 2}
    /\ d.exits[1] = [NoExits EXCEPT !["south"] = 2]
    /\ d.exits[2] = [NoExits EXCEPT !["north"] = 1]
    /\ DOMAIN d.item_locations = d.items
    /\ d.items # {}
    /\ d.item_locations_initial = d.item_locations
    /\ NoEventLogs(d)
    /\ d.game_state.current_room_id = StartingRoomId
    /\ d.game_state.current_room_id \in d.rooms

(* C31: after a successful CreateNew the store holds the starter world:  *)
(* two rooms, room 1 leading south to room 2 and room 2 north to room 1, *)
(* one live placement for every item, the snapshot of initial placements *)
(* equal to the live placements, the four event logs empty and the       *)
(* current room the starting room of the metadata.                       *)
C31_StarterWorld ==
    /\ \A rc \in CloseCodes :
         LET r == SessionCreateNew(Session, DbPath, rc, NoFault)
         IN /\ r.status = B_OK
            /\ r.session.fDatabase
            /\ StarterWorld(r.session.db)
    /\ last = [op |-> "CreateNew", status |-> B_OK]
         => fDatabase /\ StarterWorld(db)

(* CreateNew has just succeeded *)
C31_Witness ==
    /\ last = [op |-> "CreateNew", status |-> B_OK]
    /\ fDatabase
    /\ fDatabasePath = DbPath
    /\ db = StarterContent

(* C40: a rejected request does not disturb the session.  When Open       *)
(* returns B_BAD_VALUE (empty path) or B_ENTRY_NOT_FOUND (no such file),  *)
(* or CreateNew returns B_BAD_VALUE, a store that was open stays open,    *)
(* with the same path and the same contents.                              *)
C40_RejectedKeepsSession ==
    [][(/\ fDatabase
        /\ last'.op \in {"Open", "CreateNew"}
        /\ last'.status \in {B_BAD_VALUE, B_ENTRY_NOT_FOUND})
       => /\ fDatabase'
          /\ fDatabasePath' = fDatabasePath
          /\ db' = db
          /\ foreign_keys' = foreign_keys
          /\ fileExists' = fileExists]_vars

(* Open of a missing file was rejected while a store with rows was open *)
C40_Witness ==
    /\ fDatabase
    /\ fDatabasePath = DbPath
    /\ db.rooms # {}
    /\ last = [op |-> "Open", status |-> B_ENTRY_NOT_FOUND]

-----------------------------------------------------------------------------
(* SpecReveal: a puzzle world with a hidden item is played, its items are  *)
(* used, and items are revealed and hidden again with SetItemVisibility.   *)

NextReveal ==
    \/ _InitializeDatabase
    \/ MSG_MOVE
    \/ MSG_USE_ITEM
    \/ DoSetItemVisibility({2, Gem})

SpecReveal == InitPuzzle /\ [][NextReveal]_vars

-----------------------------------------------------------------------------
(* Claims checked under SpecReveal *)

(* The rooms in which GetItemsInRoom lists the item *)
RoomsListing(d, itemId) ==
    {r \in d.rooms : itemId \in GetItemsInRoom(d, r)}

(* C34: SetItemVisibility(i, false) removes i from the log of revealed   *)
(* items and changes nothing else, in particular not the base visibility *)
(* flag of any item: an item whose flag is true is listed by             *)
(* GetItemsInRoom afterwards where it was listed before, an item whose   *)
(* flag is false is listed nowhere afterwards, and is listed again where *)
(* it lies once SetItemVisibility(i, true) has put it back in the log.   *)
C34_HideKeepsBaseFlag ==
    fDatabase =>
      \A i \in db.items :
        LET h == SetItemVisibility(db, foreign_keys, i, FALSE)
            again == SetItemVisibility(h.db, foreign_keys, i, TRUE)
        IN /\ h.status = B_OK
           /\ h.db = [db EXCEPT !.revealed_items = @ \ {i}]
           /\ h.db.is_visible = db.is_visible
           /\ db.is_visible[i] => RoomsListing(h.db, i) = RoomsListing(db, i)
           /\ ~db.is_visible[i] =>
                /\ RoomsListing(h.db, i) = {}
                /\ again.status = B_OK
                /\ i \in again.db.revealed_items
                /\ RoomsListing(again.db, i) =
                     {r \in db.rooms :
                        /\ i \in DOMAIN db.item_locations
                        /\ db.item_locations[i] = r
                        /\ i \notin db.removed_items}

(* The hidden gem was revealed by an action that is completed, and was *)
(* hidden again: it is in no list, while item 2, whose flag is true,   *)
(* is listed in its room                                                *)
C34_Witness ==
    /\ fDatabase
    /\ Gem \in db.items
    /\ ~db.is_visible[Gem]
    /\ Gem \notin db.revealed_items
    /\ \E a \in db.completed_actions :
         /\ db.item_actions[a].action_type = "reveal_item"
         /\ db.item_actions[a].target_item_id = Gem
    /\ RoomsListing(db, Gem) = {}
    /\ RoomsListing(db, 2) = {2}

-----------------------------------------------------------------------------
(* SpecCurrentRoom: the player moves, to rooms there are only, the game is *)
(* reset, and the author creates and deletes rooms, on a created store and *)
(* on the same store opened again.                                         *)

NextCurrentRoom ==
    \/ DoCreateNew
    \/ DoOpen
    \/ DoMoveToRoom(db.rooms)
    \/ DoCreateRoom
    \/ DoDeleteRoom(RoomArgs, {NoFault})
    \/ DoMoveItemToInventory(PlayItems)
    \/ DoClearGameState({NoFault})

SpecCurrentRoom == Init /\ [][NextCurrentRoom]_vars

-----------------------------------------------------------------------------
(* Claims checked under SpecCurrentRoom *)

(* C37: in every state reached with MoveToRoom called for existing rooms *)
(* only, the current room of the game state is a room there is, also     *)
(* after DeleteRoom of the current room and after ClearGameState once    *)
(* the starting room of the metadata was deleted.                        *)
C37_Original ==
    fDatabase => db.game_state.current_room_id \in db.rooms
-----------------------------------------------------------------------------
(* The player who stays in the room where the game starts: the window     *)
(* opens the store and, from then on, handles the item buttons only.  The *)
(* player keeps using what they hold: a use that changes something is not *)
(* put off for ever.                                                      *)

NextUse ==
    \/ _InitializeDatabase
    \/ MSG_TAKE_ITEM
    \/ MSG_DROP_ITEM
    \/ MSG_USE_ITEM

SpecUse == InitPuzzle /\ [][NextUse]_vars

SpecUseFair ==
    /\ InitPuzzle
    /\ [][NextUse]_vars
    /\ WF_vars(_InitializeDatabase)
    /\ WF_vars(MSG_USE_ITEM)

(* The actions defined for the item in the room held or in any room *)
DefinedFor(d, itemId) ==
    {a \in DOMAIN d.item_actions :
       /\ d.item_actions[a].item_id = itemId
       /\ d.item_actions[a].room_id \in {d.game_state.current_room_id, NULL}}

AllCompleted(d, itemId) ==
    \A a \in DefinedFor(d, itemId) : IsActionCompleted(d, a)

(* C39: the player who holds item 1 and keeps using it in the room where  *)
(* they stand gets every action defined for the item there, or for any    *)
(* room, marked completed, unless the item leaves the inventory first: no *)
(* uncompleted action blocks the ones after it for ever.                  *)
C39_Original ==
    (fDatabase /\ 1 \in GetInventoryItems(db))
      ~> (\/ 1 \notin GetInventoryItems(db)
          \/ AllCompleted(db, 1))

====
